---- MODULE Spec2Model ----
(***************************************************************************)
(* Model of the openapi-auditor rule engine (src/auditor/checks.py) and of *)
(* the audit command that runs it.                                         *)
(*                                                                         *)
(* A Document is a decoded JSON/YAML tree.  Every node is a record         *)
(*   [t |-> tag, v |-> payload]                                            *)
(* with tag "map" (payload: sequence of <<key, value>> pairs in insertion  *)
(* order), "seq" (payload: sequence of nodes), "str" (payload: sequence of *)
(* one-character strings), "num", "bool" and "null".                       *)
(*                                                                         *)
(* A check returns [raised |-> BOOLEAN, issues |-> sequence of             *)
(* diagnostics]; raised = TRUE models a Python exception leaving the       *)
(* function (the issues collected so far are lost).                        *)
(*                                                                         *)
(* The audit command (src/auditor/cli.py) loads the target file            *)
(* (src/auditor/loader.py), calls the checks in a fixed order and writes   *)
(* the report; pc is its position, invoked the checks called so far with   *)
(* their results, error the exception that ended the run.                  *)
(***************************************************************************)
EXTENDS Integers, Sequences, FiniteSets, TLC

VARIABLES spec, name, hashseed, fn, out, file, pc, invoked, error, report

vars == <<spec, name, hashseed, fn, out, file, pc, invoked, error, report>>

\* The variables of a run of the audit command (src/auditor/cli.py).
audit_vars == <<file, pc, invoked, error, report>>

\* ------------------------------------------------------------------------
\* Decoded values
\* ------------------------------------------------------------------------
Str(s) == [t |-> "str", v |-> s]
Num(n) == [t |-> "num", v |-> n]
Bool(b) == [t |-> "bool", v |-> b]
NoneV == [t |-> "null", v |-> <<>>]
List(s) == [t |-> "seq", v |-> s]
Dict(kvs) == [t |-> "map", v |-> kvs]
EmptyDict == Dict(<<>>)
EmptyList == List(<<>>)
EmptyStr == Str(<<>>)

IsDict(x) == x.t = "map"
IsList(x) == x.t = "seq"
IsStr(x) == x.t = "str"

\* Python truth value of a decoded value (used by `x or default`, `if not x`).
Truthy(x) ==
    CASE x.t = "null" -> FALSE
      [] x.t = "bool" -> x.v
      [] x.t = "num" -> x.v # 0
      [] OTHER -> x.v # <<>>

\* hash(x) succeeds: lists and dicts are unhashable.
Hashable(x) == x.t \notin {"seq", "map"}

\* `for e in x` succeeds.
Iterable(x) == x.t \in {"seq", "map", "str"}

\* The elements `for e in x` visits: list items, dict keys, characters.
Elems(x) ==
    CASE x.t = "seq" -> x.v
      [] x.t = "map" -> [i \in 1..Len(x.v) |-> x.v[i][1]]
      [] x.t = "str" -> [i \in 1..Len(x.v) |-> Str(<<x.v[i]>>)]
      [] OTHER -> <<>>

\* d.items() of a dict.
Items(d) == IF IsDict(d) THEN d.v ELSE <<>>

\* `k in d` for a dict d.
HasKey(d, k) == IsDict(d) /\ \E i \in 1..Len(d.v) : d.v[i][1] = k

\* d.get(k, default) for a dict d.
Get(d, k, default) ==
    IF HasKey(d, k)
    THEN d.v[CHOOSE i \in 1..Len(d.v) : d.v[i][1] = k][2]
    ELSE default

\* d.get(k)
GetN(d, k) == Get(d, k, NoneV)

\* `d.get(k, default) or default`
GetOr(d, k, default) ==
    LET x == Get(d, k, default) IN IF Truthy(x) THEN x ELSE default

\* d[k] = v on an insertion-ordered dict given as a sequence of pairs.
DictSet(kvs, k, val) ==
    IF \E i \in 1..Len(kvs) : kvs[i][1] = k
    THEN [i \in 1..Len(kvs) |-> IF kvs[i][1] = k THEN <<k, val>> ELSE kvs[i]]
    ELSE Append(kvs, <<k, val>>)

RECURSIVE FlatMap(_, _)
\* Concatenation of F(e) over the elements of s, in order (a for loop that
\* appends to a list).
FlatMap(F(_), s) ==
    IF s = <<>> THEN <<>> ELSE F(Head(s)) \o FlatMap(F, Tail(s))

Ok(issues) == [raised |-> FALSE, issues |-> issues]
Raised == [raised |-> TRUE, issues |-> <<>>]

\* ------------------------------------------------------------------------
\* Characters
\* ------------------------------------------------------------------------
LowerChars == {"a","b","c","d","e","f","g","h","i","j","k","l","m",
               "n","o","p","q","r","s","t","u","v","w","x","y","z"}
UpperChars == {"A","B","C","D","E","F","G","H","I","J","K","L","M",
               "N","O","P","Q","R","S","T","U","V","W","X","Y","Z"}
DigitChars == {"0","1","2","3","4","5","6","7","8","9"}

LowerSeq == <<"a","b","c","d","e","f","g","h","i","j","k","l","m",
              "n","o","p","q","r","s","t","u","v","w","x","y","z">>
UpperSeq == <<"A","B","C","D","E","F","G","H","I","J","K","L","M",
              "N","O","P","Q","R","S","T","U","V","W","X","Y","Z">>

\* str.lower() / str.upper() on one character.
LowerChar(c) ==
    IF c \in UpperChars
    THEN LowerSeq[CHOOSE i \in 1..26 : UpperSeq[i] = c]
    ELSE c
UpperChar(c) ==
    IF c \in LowerChars
    THEN UpperSeq[CHOOSE i \in 1..26 : LowerSeq[i] = c]
    ELSE c
Lower(s) == [i \in 1..Len(s) |-> LowerChar(s[i])]
Upper(s) == [i \in 1..Len(s) |-> UpperChar(s[i])]

\* ------------------------------------------------------------------------
\* Keys and literals of the source
\* ------------------------------------------------------------------------
K_paths == Str(<<"p","a","t","h","s">>)
K_operationId == Str(<<"o","p","e","r","a","t","i","o","n","I","d">>)
K_parameters == Str(<<"p","a","r","a","m","e","t","e","r","s">>)
K_in == Str(<<"i","n">>)
K_name == Str(<<"n","a","m","e">>)
K_required == Str(<<"r","e","q","u","i","r","e","d">>)
V_path == Str(<<"p","a","t","h">>)
V_query == Str(<<"q","u","e","r","y">>)

M_get == <<"g","e","t">>
M_post == <<"p","o","s","t">>
M_put == <<"p","u","t">>
M_patch == <<"p","a","t","c","h">>
M_delete == <<"d","e","l","e","t","e">>
M_options == <<"o","p","t","i","o","n","s">>
M_head == <<"h","e","a","d">>
M_trace == <<"t","r","a","c","e">>

HTTP_METHODS == {M_get, M_post, M_put, M_patch, M_delete, M_options, M_head, M_trace}

\* ------------------------------------------------------------------------
\* iter_operations
\* ------------------------------------------------------------------------
\* Mutant: the key is compared as written, without lower().
ItemOperations_as_written(path, item) ==
    FlatMap(LAMBDA kv :
                IF IsStr(kv[1]) /\ kv[1].v \in HTTP_METHODS /\ IsDict(kv[2])
                THEN <<[path |-> path, method |-> kv[1].v, op |-> kv[2]]>>
                ELSE <<>>,
            Items(item))

\* Operations of one path item, in the order of its keys.
ItemOperations(path, item) ==
    FlatMap(LAMBDA kv :
                IF IsStr(kv[1]) /\ Lower(kv[1].v) \in HTTP_METHODS /\ IsDict(kv[2])
                THEN <<[path |-> path, method |-> Lower(kv[1].v), op |-> kv[2]]>>
                ELSE <<>>,
            Items(item))

\* method.lower() raises on a key that is not a string.
ItemRaises(item) == \E i \in 1..Len(Items(item)) : ~IsStr(Items(item)[i][1])

iter_operations(d) ==
    LET paths == GetOr(d, K_paths, EmptyDict) IN
    [raised |-> \/ ~IsDict(paths)
                \/ \E i \in 1..Len(Items(paths)) :
                      IsDict(Items(paths)[i][2]) /\ ItemRaises(Items(paths)[i][2]),
     ops |-> FlatMap(LAMBDA kv :
                        IF IsDict(kv[2]) THEN ItemOperations(kv[1], kv[2]) ELSE <<>>,
                     Items(paths))]

\* ------------------------------------------------------------------------
\* check_unique_operation_ids
\* ------------------------------------------------------------------------
\* Mutant: every occurrence overwrites the remembered place (last seen wins).
SeenUpdate_last_wins(seen, op_id, o) == DictSet(seen, op_id, <<o.path, o.method>>)

\* Lines 52-61: `seen` after an operation carrying op_id; only the first
\* occurrence of an id is remembered.
SeenUpdate(seen, op_id, o) ==
    IF \E i \in 1..Len(seen) : seen[i][1] = op_id
    THEN seen
    ELSE DictSet(seen, op_id, <<o.path, o.method>>)

\* Lines 52-58: the duplicate diagnostic, if op_id is already in seen.
DuplicateIssue(seen, op_id, o) ==
    IF \E i \in 1..Len(seen) : seen[i][1] = op_id
    THEN LET prev == seen[CHOOSE i \in 1..Len(seen) : seen[i][1] = op_id][2]
         IN <<[kind |-> "duplicate_operationId", op_id |-> op_id,
               method |-> Upper(o.method), path |-> o.path,
               prev_method |-> Upper(prev[2]), prev_path |-> prev[1]]>>
    ELSE <<>>

RECURSIVE UniqueIdsLoop(_, _, _)
\* The for loop of check_unique_operation_ids: ops still to visit, the
\* `seen` dict and the issues so far.  `op_id in seen` hashes op_id.
UniqueIdsLoop(ops, seen, issues) ==
    IF ops = <<>> THEN Ok(issues)
    ELSE LET o == Head(ops)
             op_id == GetN(o.op, K_operationId)
         IN IF ~Truthy(op_id)
            THEN UniqueIdsLoop(Tail(ops), seen,
                    Append(issues, [kind |-> "missing_operationId",
                                    method |-> Upper(o.method), path |-> o.path]))
            ELSE IF ~Hashable(op_id) THEN Raised
            ELSE UniqueIdsLoop(Tail(ops), SeenUpdate(seen, op_id, o),
                               issues \o DuplicateIssue(seen, op_id, o))

check_unique_operation_ids(d) ==
    LET it == iter_operations(d)
        r == UniqueIdsLoop(it.ops, <<>>, <<>>)
    IN IF it.raised \/ r.raised THEN Raised ELSE r

\* ------------------------------------------------------------------------
\* PARAM_PATTERN = \{([^}/]+)\}
\* ------------------------------------------------------------------------
RECURSIVE RunEnd(_, _)
\* First index >= i of s holding "}" or "/", or Len(s)+1: the end of the
\* greedy run [^}/]+ that starts at i.
RunEnd(s, i) ==
    IF i > Len(s) \/ s[i] \in {"}", "/"} THEN i ELSE RunEnd(s, i + 1)

\* PARAM_PATTERN matches at index i of s.
ParamMatchAt(s, i) ==
    /\ i <= Len(s)
    /\ s[i] = "{"
    /\ RunEnd(s, i + 1) > i + 1
    /\ RunEnd(s, i + 1) <= Len(s)
    /\ s[RunEnd(s, i + 1)] = "}"

RECURSIVE FindAllFrom(_, _)
\* PARAM_PATTERN.findall(s), scanning from index i: the captured names of
\* the non-overlapping matches, left to right.
FindAllFrom(s, i) ==
    IF i > Len(s) THEN <<>>
    ELSE IF ParamMatchAt(s, i)
         THEN <<SubSeq(s, i + 1, RunEnd(s, i + 1) - 1)>>
                 \o FindAllFrom(s, RunEnd(s, i + 1) + 1)
         ELSE FindAllFrom(s, i + 1)

PARAM_PATTERN_findall(s) == FindAllFrom(s, 1)

\* bool(PARAM_PATTERN.search(path))
_path_has_template(s) == \E i \in 1..Len(s) : ParamMatchAt(s, i)

RECURSIVE Dedup(_)
\* The distinct elements of s, in order of first occurrence.
Dedup(s) ==
    IF s = <<>> THEN <<>>
    ELSE LET r == Dedup(SubSeq(s, 1, Len(s) - 1))
         IN IF \E i \in 1..Len(r) : r[i] = s[Len(s)] THEN r ELSE Append(r, s[Len(s)])

Reverse(s) == [i \in 1..Len(s) |-> s[Len(s) + 1 - i]]

\* Iteration order of set(names): fixed within one process, chosen by the
\* interpreter's string hash seed.  Seed 0 gives first-occurrence order,
\* any other seed the reverse order.
SetIterOrder(names, seed) ==
    IF seed = 0 THEN Dedup(names) ELSE Reverse(Dedup(names))

\* ------------------------------------------------------------------------
\* check_path_params_defined
\* ------------------------------------------------------------------------
\* The filter of lines 89 and 100: a mapping with in == "path" and a string name.
IsPathParamDecl(p) ==
    IsDict(p) /\ GetN(p, K_in) = V_path /\ IsStr(GetN(p, K_name))

RECURSIVE DeclareLoop(_, _)
\* for p in ...: if <filter>: declared[p["name"]] = p
DeclareLoop(ps, declared) ==
    IF ps = <<>> THEN declared
    ELSE DeclareLoop(Tail(ps),
                     IF IsPathParamDecl(Head(ps))
                     THEN DictSet(declared, GetN(Head(ps), K_name), Head(ps))
                     ELSE declared)

\* The name -> declaration dict built from owner.get("parameters", []) or [].
DeclaredLevel(owner) ==
    DeclareLoop(Elems(GetOr(owner, K_parameters, EmptyList)), <<>>)

\* Iterating owner's parameters raises (a truthy number or boolean).
ParamsRaise(owner) == ~Iterable(GetOr(owner, K_parameters, EmptyList))

RECURSIVE MergeInto(_, _)
\* {**a, **b}
MergeInto(a, b) ==
    IF b = <<>> THEN a
    ELSE MergeInto(DictSet(a, Head(b)[1], Head(b)[2]), Tail(b))

\* Mutant: the merge is written the other way round, path level wins.
MergedParams_path_wins(declared_path_level, declared_op_level) ==
    MergeInto(declared_op_level, declared_path_level)

\* Line 105: merged = {**declared_path_level, **declared_op_level}
MergedParams(declared_path_level, declared_op_level) ==
    MergeInto(declared_path_level, declared_op_level)

\* Step 4: one placeholder name against the merged declarations.
ExpectedParamIssues(o, merged, param_name) ==
    LET meta == Get(Dict(merged), Str(param_name), NoneV) IN
    IF ~Truthy(meta)
    THEN <<[kind |-> "param_missing", method |-> Upper(o.method),
            path |-> o.path, name |-> Str(param_name)]>>
    ELSE (IF GetN(meta, K_in) # V_path
          THEN <<[kind |-> "param_should_be_in_path", method |-> Upper(o.method),
                  path |-> o.path, name |-> Str(param_name)]>>
          ELSE <<>>)
         \o
         (IF GetN(meta, K_required) # Bool(TRUE)
          THEN <<[kind |-> "param_must_be_required", method |-> Upper(o.method),
                  path |-> o.path, name |-> Str(param_name)]>>
          ELSE <<>>)

\* Mutant: the `not` of line 129 is lost, placeholders are reported instead.
OrphanIssues_not_lost(o, merged, expected_params) ==
    FlatMap(LAMBDA kv :
                IF /\ GetN(kv[2], K_in) = V_path
                   /\ \E i \in 1..Len(expected_params) : Str(expected_params[i]) = kv[1]
                THEN <<[kind |-> "param_orphan", method |-> Upper(o.method),
                        path |-> o.path, name |-> kv[1]]>>
                ELSE <<>>,
            merged)

\* Step 5: declared in: path but not a placeholder of the template.
OrphanIssues(o, merged, expected_params) ==
    FlatMap(LAMBDA kv :
                IF /\ GetN(kv[2], K_in) = V_path
                   /\ ~\E i \in 1..Len(expected_params) : Str(expected_params[i]) = kv[1]
                THEN <<[kind |-> "param_orphan", method |-> Upper(o.method),
                        path |-> o.path, name |-> kv[1]]>>
                ELSE <<>>,
            merged)

\* Body of the loop over the operations of one path (lines 97-133).
OperationParamIssues(o, declared_path_level, expected_params) ==
    LET merged == MergedParams(declared_path_level, DeclaredLevel(o.op)) IN
    FlatMap(LAMBDA pn : ExpectedParamIssues(o, merged, pn), expected_params)
        \o OrphanIssues(o, merged, expected_params)

\* Lines 80-84: does the loop body go on for this path?
PathIsChecked(expected_params) == expected_params # <<>>

\* Body of the loop over paths (lines 77-133).
PathParamIssues(d, seed, path, item) ==
    IF ~IsDict(item) \/ ~IsStr(path) THEN <<>>
    ELSE LET expected_params == SetIterOrder(PARAM_PATTERN_findall(path.v), seed) IN
         IF ~PathIsChecked(expected_params) THEN <<>>
         ELSE FlatMap(LAMBDA o :
                         IF o.path # path THEN <<>>
                         ELSE OperationParamIssues(o, DeclaredLevel(item), expected_params),
                      iter_operations(d).ops)

\* The loop body for this path raises.
PathParamRaises(d, path, item) ==
    /\ IsDict(item)
    /\ \/ ~IsStr(path)
       \/ /\ PARAM_PATTERN_findall(path.v) # <<>>
          /\ \/ ParamsRaise(item)
             \/ iter_operations(d).raised
             \/ \E i \in 1..Len(iter_operations(d).ops) :
                   /\ iter_operations(d).ops[i].path = path
                   /\ ParamsRaise(iter_operations(d).ops[i].op)

check_path_params_defined(d, seed) ==
    LET paths == GetOr(d, K_paths, EmptyDict) IN
    IF \/ ~IsDict(paths)
       \/ \E i \in 1..Len(Items(paths)) :
             PathParamRaises(d, Items(paths)[i][1], Items(paths)[i][2])
    THEN Raised
    ELSE Ok(FlatMap(LAMBDA kv : PathParamIssues(d, seed, kv[1], kv[2]), Items(paths)))

\* ------------------------------------------------------------------------
\* detect_style
\* ------------------------------------------------------------------------
\* `$` matches at the end of the string and before a final newline.
AtDollar(s, i) == i = Len(s) + 1 \/ (i = Len(s) /\ s[i] = "\n")

RECURSIVE StyleMatch(_, _, _, _)
\* Matcher for ^[a-z]+(?:SEP[a-z0-9]+)*$ where SEP is one character of the
\* set seps.  st is the position in the pattern: "start" (nothing read),
\* "word" (inside [a-z]+), "sep" (just read SEP), "seg" (inside [a-z0-9]+).
StyleMatch(s, i, st, seps) ==
    IF (st \in {"word", "seg"}) /\ AtDollar(s, i) THEN TRUE
    ELSE IF i > Len(s) THEN FALSE
    ELSE CASE st = "start" ->
                 s[i] \in LowerChars /\ StyleMatch(s, i + 1, "word", seps)
           [] st = "word" ->
                 \/ s[i] \in LowerChars /\ StyleMatch(s, i + 1, "word", seps)
                 \/ s[i] \in seps /\ StyleMatch(s, i + 1, "sep", seps)
           [] st = "sep" ->
                 s[i] \in (LowerChars \cup DigitChars) /\ StyleMatch(s, i + 1, "seg", seps)
           [] OTHER ->
                 \/ s[i] \in (LowerChars \cup DigitChars) /\ StyleMatch(s, i + 1, "seg", seps)
                 \/ s[i] \in seps /\ StyleMatch(s, i + 1, "sep", seps)

\* _CAMEL_RE.match(name)
_CAMEL_RE_match(s) == StyleMatch(s, 1, "start", UpperChars)
\* _SNAKE_RE.match(name)
_SNAKE_RE_match(s) == StyleMatch(s, 1, "start", {"_"})

\* Mutant: the snake pattern is tried before the camel pattern.
detect_style_snake_first(s) ==
    IF _SNAKE_RE_match(s) THEN "snake"
    ELSE IF _CAMEL_RE_match(s) THEN "camel"
    ELSE "other"

detect_style(s) ==
    IF _CAMEL_RE_match(s) THEN "camel"
    ELSE IF _SNAKE_RE_match(s) THEN "snake"
    ELSE "other"

\* ------------------------------------------------------------------------
\* _last_segment, check_verbs_in_path, check_plural_collections
\* ------------------------------------------------------------------------
RECURSIVE Split(_, _, _)
\* path.split("/"): cur is the piece being read, from index i on.
Split(s, i, cur) ==
    IF i > Len(s) THEN <<cur>>
    ELSE IF s[i] = "/" THEN <<cur>> \o Split(s, i + 1, <<>>)
    ELSE Split(s, i + 1, Append(cur, s[i]))

\* Mutant: the empty pieces are not filtered out, "/users/" ends in "".
_last_segment_unfiltered(s) ==
    LET segs == Split(s, 1, <<>>) IN segs[Len(segs)]

_last_segment(s) ==
    LET segs == SelectSeq(Split(s, 1, <<>>), LAMBDA x : x # <<>>)
    IN IF segs # <<>> THEN segs[Len(segs)] ELSE <<>>

StartsWith(s, p) == Len(s) >= Len(p) /\ SubSeq(s, 1, Len(p)) = p
EndsWith(s, p) == Len(s) >= Len(p) /\ SubSeq(s, Len(s) - Len(p) + 1, Len(s)) = p

VERB_TRIGGERS ==
    {<<"c","r","e","a","t","e">>, <<"u","p","d","a","t","e">>,
     <<"d","e","l","e","t","e">>, <<"r","e","m","o","v","e">>,
     <<"a","d","d">>, <<"s","e","t">>, <<"g","e","t">>,
     <<"m","a","k","e">>, <<"d","o">>, <<"r","u","n">>,
     <<"e","x","e","c","u","t","e">>, <<"g","e","n","e","r","a","t","e">>}

check_verbs_in_path(d) ==
    LET paths == GetOr(d, K_paths, EmptyDict) IN
    IF ~IsDict(paths) \/ \E i \in 1..Len(Items(paths)) : ~IsStr(Items(paths)[i][1])
    THEN Raised
    ELSE Ok(FlatMap(LAMBDA kv :
                       IF \E vb \in VERB_TRIGGERS :
                             StartsWith(Lower(_last_segment(kv[1].v)), vb)
                       THEN <<[kind |-> "verb_in_path", path |-> kv[1]]>>
                       ELSE <<>>,
                    Items(paths)))

\* Body of the loop of check_plural_collections for one operation.
PluralIssue(o) ==
    IF o.method # M_get THEN <<>>
    ELSE IF ~IsStr(o.path) THEN <<>>
    ELSE IF _path_has_template(o.path.v) THEN <<>>
    ELSE IF ~EndsWith(_last_segment(o.path.v), <<"s">>)
         THEN <<[kind |-> "not_plural", method |-> Upper(M_get), path |-> o.path]>>
         ELSE <<>>

check_plural_collections(d) ==
    LET it == iter_operations(d) IN
    IF \/ it.raised
       \/ \E i \in 1..Len(it.ops) : it.ops[i].method = M_get /\ ~IsStr(it.ops[i].path)
    THEN Raised
    ELSE Ok(FlatMap(PluralIssue, it.ops))

\* ------------------------------------------------------------------------
\* More keys of the source
\* ------------------------------------------------------------------------
K_components == Str(<<"c","o","m","p","o","n","e","n","t","s">>)
K_schemas == Str(<<"s","c","h","e","m","a","s">>)
K_schema == Str(<<"s","c","h","e","m","a">>)
K_properties == Str(<<"p","r","o","p","e","r","t","i","e","s">>)
K_responses == Str(<<"r","e","s","p","o","n","s","e","s">>)
K_requestBody == Str(<<"r","e","q","u","e","s","t","B","o","d","y">>)
K_content == Str(<<"c","o","n","t","e","n","t">>)
K_application_json ==
    Str(<<"a","p","p","l","i","c","a","t","i","o","n","/","j","s","o","n">>)
K_openapi == Str(<<"o","p","e","n","a","p","i">>)
K_swagger == Str(<<"s","w","a","g","g","e","r">>)
K_servers == Str(<<"s","e","r","v","e","r","s">>)
K_url == Str(<<"u","r","l">>)
K_basePath == Str(<<"b","a","s","e","P","a","t","h">>)
K_type == Str(<<"t","y","p","e">>)
K_format == Str(<<"f","o","r","m","a","t">>)
K_nullable == Str(<<"n","u","l","l","a","b","l","e">>)
K_example == Str(<<"e","x","a","m","p","l","e">>)
K_examples == Str(<<"e","x","a","m","p","l","e","s">>)
K_ref == Str(<<"$","r","e","f">>)
K_oneOf == Str(<<"o","n","e","O","f">>)
K_anyOf == Str(<<"a","n","y","O","f">>)
K_allOf == Str(<<"a","l","l","O","f">>)
V_object == Str(<<"o","b","j","e","c","t">>)
V_null == Str(<<"n","u","l","l">>)

\* d.values() of a dict.
Values(d) == [i \in 1..Len(Items(d)) |-> Items(d)[i][2]]
\* d.keys() of a dict.
Keys(d) == [i \in 1..Len(Items(d)) |-> Items(d)[i][1]]

\* ------------------------------------------------------------------------
\* _collect_json_property_names, check_json_keys_style
\* ------------------------------------------------------------------------
\* The string keys of schema.get("properties", {}) or {}.
PropertyNames(sch) ==
    SelectSeq(Keys(GetOr(sch, K_properties, EmptyDict)), IsStr)

\* props.keys() raises: properties is truthy and not a mapping.
PropertyNamesRaise(sch) == ~IsDict(GetOr(sch, K_properties, EmptyDict))

\* Part a): components.schemas.*.properties
ComponentSchemas(d) == GetOr(GetOr(d, K_components, EmptyDict), K_schemas, EmptyDict)

\* comps.get / schemas.items() / schemas.values() raises.
ComponentSchemasRaise(d) ==
    \/ ~IsDict(GetOr(d, K_components, EmptyDict))
    \/ ~IsDict(ComponentSchemas(d))

\* application/json schema of a response r, as lines 212-218 read it
\* (<<>> when the response is skipped, <<schema>> otherwise).
ResponseJsonSchema(r) ==
    IF ~IsDict(r) THEN <<>>
    ELSE LET content == GetOr(r, K_content, EmptyDict)
             app_json == GetN(content, K_application_json)
         IN IF ~IsDict(app_json) THEN <<>>
            ELSE LET schema == GetOr(app_json, K_schema, EmptyDict)
                 IN IF IsDict(schema) THEN <<schema>> ELSE <<>>

\* content.get raises: content is truthy and not a mapping.
ResponseContentRaises(r) ==
    IsDict(r) /\ ~IsDict(GetOr(r, K_content, EmptyDict))

\* Names and failure of part b) for one operation.
OperationResponses(op) == GetOr(op, K_responses, EmptyDict)

OperationJsonNames(op) ==
    FlatMap(LAMBDA r : FlatMap(PropertyNames, ResponseJsonSchema(r)),
            Values(OperationResponses(op)))

OperationJsonNamesRaise(op) ==
    \/ ~IsDict(OperationResponses(op))
    \/ \E i \in 1..Len(Values(OperationResponses(op))) :
          LET r == Values(OperationResponses(op))[i] IN
          \/ ResponseContentRaises(r)
          \/ \E j \in 1..Len(ResponseJsonSchema(r)) :
                PropertyNamesRaise(ResponseJsonSchema(r)[j])

_collect_json_property_names(d) ==
    LET it == iter_operations(d) IN
    IF \/ ComponentSchemasRaise(d)
       \/ \E i \in 1..Len(Values(ComponentSchemas(d))) :
             /\ IsDict(Values(ComponentSchemas(d))[i])
             /\ PropertyNamesRaise(Values(ComponentSchemas(d))[i])
       \/ it.raised
       \/ \E i \in 1..Len(it.ops) : OperationJsonNamesRaise(it.ops[i].op)
    THEN [raised |-> TRUE, names |-> <<>>]
    ELSE [raised |-> FALSE,
          names |-> FlatMap(LAMBDA sch : IF IsDict(sch) THEN PropertyNames(sch) ELSE <<>>,
                            Values(ComponentSchemas(d)))
                    \o FlatMap(LAMBDA o : OperationJsonNames(o.op), it.ops)]

\* styles[style] after the counting loop.
StyleCount(names, style) ==
    Len(SelectSeq(names, LAMBDA n : detect_style(n.v) = style))

check_json_keys_style(d) ==
    LET c == _collect_json_property_names(d)
        camel == StyleCount(c.names, "camel")
        snake == StyleCount(c.names, "snake")
        other == StyleCount(c.names, "other")
    IN IF c.raised THEN Raised
       ELSE IF c.names = <<>> THEN Ok(<<>>)
       ELSE Ok((IF camel > 0 /\ snake > 0
                THEN <<[kind |-> "json_keys_mix", camel |-> camel, snake |-> snake]>>
                ELSE <<>>)
               \o
               (IF other > 0 /\ camel + snake > 0
                THEN <<[kind |-> "json_keys_non_standard", other |-> other]>>
                ELSE <<>>))

\* ------------------------------------------------------------------------
\* _collect_param_names, check_param_names_style
\* ------------------------------------------------------------------------
\* The filter of lines 264 and 272.
IsPathOrQueryParam(p) ==
    IsDict(p) /\ GetN(p, K_in) \in {V_path, V_query} /\ IsStr(GetN(p, K_name))

\* Names collected from owner.get("parameters", []) or [].
OwnerParamNames(owner) ==
    FlatMap(LAMBDA p : IF IsPathOrQueryParam(p) THEN <<GetN(p, K_name)>> ELSE <<>>,
            Elems(GetOr(owner, K_parameters, EmptyList)))

\* Collecting from owner raises: parameters cannot be iterated, or an `in`
\* value cannot be hashed for the set membership test.
OwnerParamNamesRaise(owner) ==
    \/ ParamsRaise(owner)
    \/ \E i \in 1..Len(Elems(GetOr(owner, K_parameters, EmptyList))) :
          LET p == Elems(GetOr(owner, K_parameters, EmptyList))[i] IN
          IsDict(p) /\ ~Hashable(GetN(p, K_in))

_collect_param_names(d) ==
    LET paths == GetOr(d, K_paths, EmptyDict) IN
    IF \/ ~IsDict(paths)
       \/ \E i \in 1..Len(Items(paths)) :
             LET item == Items(paths)[i][2] IN
             /\ IsDict(item)
             /\ \/ OwnerParamNamesRaise(item)
                \/ ItemRaises(item)
                \/ \E j \in 1..Len(ItemOperations(NoneV, item)) :
                      OwnerParamNamesRaise(ItemOperations(NoneV, item)[j].op)
    THEN [raised |-> TRUE, names |-> <<>>]
    ELSE [raised |-> FALSE,
          names |-> FlatMap(LAMBDA kv :
                               IF ~IsDict(kv[2]) THEN <<>>
                               ELSE OwnerParamNames(kv[2])
                                    \o FlatMap(LAMBDA o : OwnerParamNames(o.op),
                                               ItemOperations(kv[1], kv[2])),
                            Items(paths))]

check_param_names_style(d) ==
    LET c == _collect_param_names(d)
        camel == StyleCount(c.names, "camel")
        snake == StyleCount(c.names, "snake")
        other == StyleCount(c.names, "other")
    IN IF c.raised THEN Raised
       ELSE IF c.names = <<>> THEN Ok(<<>>)
       ELSE Ok((IF camel > 0 /\ snake > 0
                THEN <<[kind |-> "param_names_mix", camel |-> camel, snake |-> snake]>>
                ELSE <<>>)
               \o
               (IF other > 0 /\ camel + snake > 0
                THEN <<[kind |-> "param_names_non_standard", other |-> other]>>
                ELSE <<>>))

\* ------------------------------------------------------------------------
\* _VER_RE = /v\d+(?:\b|/), check_versioning_present
\* ------------------------------------------------------------------------
WordChars == LowerChars \cup UpperChars \cup DigitChars \cup {"_"}

RECURSIVE DigitsEnd(_, _)
\* First index >= i of s that holds no digit, or Len(s)+1.
DigitsEnd(s, i) ==
    IF i > Len(s) \/ s[i] \notin DigitChars THEN i ELSE DigitsEnd(s, i + 1)

\* _VER_RE matches at index i: "/v", one or more digits, then a word
\* boundary (end of string or a non-word character; "/" is one).
VerMatchAt(s, i) ==
    /\ i + 2 <= Len(s)
    /\ s[i] = "/"
    /\ s[i + 1] = "v"
    /\ DigitsEnd(s, i + 2) > i + 2
    /\ \/ DigitsEnd(s, i + 2) > Len(s)
       \/ s[DigitsEnd(s, i + 2)] \notin WordChars

\* bool(_VER_RE.search(s))
_VER_RE_search(s) == \E i \in 1..Len(s) : VerMatchAt(s, i)

\* The loop over servers sets ok.
ServerIsVersioned(srv) ==
    /\ IsDict(srv)
    /\ IsStr(Get(srv, K_url, EmptyStr))
    /\ _VER_RE_search(Get(srv, K_url, EmptyStr).v)

check_versioning_present(d) ==
    IF HasKey(d, K_openapi)
    THEN LET servers == GetOr(d, K_servers, EmptyList) IN
         IF ~Truthy(servers)
         THEN Ok(<<[kind |-> "no_servers"]>>)
         ELSE IF ~Iterable(servers) THEN Raised
         ELSE IF \E i \in 1..Len(Elems(servers)) : ServerIsVersioned(Elems(servers)[i])
         THEN Ok(<<>>)
         ELSE Ok(<<[kind |-> "no_version_in_servers"]>>)
    ELSE IF HasKey(d, K_swagger)
    THEN LET base == Get(d, K_basePath, EmptyStr) IN
         IF ~IsStr(base) \/ ~Truthy(base)
         THEN Ok(<<[kind |-> "no_basePath"]>>)
         ELSE IF ~_VER_RE_search(base.v)
         THEN Ok(<<[kind |-> "no_version_in_basePath"]>>)
         ELSE Ok(<<>>)
    ELSE Ok(<<>>)

\* ------------------------------------------------------------------------
\* String order (sorted() on str compares code points)
\* ------------------------------------------------------------------------
CodePointOrder ==
    <<"\n", "$", "-", "/",
      "0","1","2","3","4","5","6","7","8","9",
      "A","B","C","D","E","F","G","H","I","J","K","L","M",
      "N","O","P","Q","R","S","T","U","V","W","X","Y","Z",
      "_",
      "a","b","c","d","e","f","g","h","i","j","k","l","m",
      "n","o","p","q","r","s","t","u","v","w","x","y","z",
      "{", "}">>

CharRank(c) == CHOOSE i \in 1..Len(CodePointOrder) : CodePointOrder[i] = c

RECURSIVE StrLess(_, _)
\* a < b for two strings.
StrLess(a, b) ==
    IF b = <<>> THEN FALSE
    ELSE IF a = <<>> THEN TRUE
    ELSE IF Head(a) = Head(b) THEN StrLess(Tail(a), Tail(b))
    ELSE CharRank(Head(a)) < CharRank(Head(b))

RECURSIVE Sorted(_)
\* sorted(S) for a finite set S of strings.
Sorted(S) ==
    IF S = {} THEN <<>>
    ELSE LET m == CHOOSE x \in S : \A y \in S \ {x} : StrLess(x, y)
         IN <<m>> \o Sorted(S \ {m})

\* ------------------------------------------------------------------------
\* _iter_object_schemas
\* ------------------------------------------------------------------------
\* requestBody schema of an operation (lines 371-379).
RequestBodySchema(o) ==
    LET rb == GetN(o.op, K_requestBody) IN
    IF ~IsDict(rb) THEN <<>>
    ELSE LET content == GetOr(rb, K_content, EmptyDict) IN
         IF ~IsDict(content) THEN <<>>
         ELSE LET aj == GetN(content, K_application_json) IN
              IF ~IsDict(aj) THEN <<>>
              ELSE IF IsDict(GetN(aj, K_schema))
                   THEN <<[where |-> [loc |-> "requestBody", method |-> Upper(o.method),
                                      path |-> o.path],
                           sch |-> GetN(aj, K_schema)]>>
                   ELSE <<>>

\* Response schemas of an operation (lines 382-392).
ResponseSchemas(o) ==
    FlatMap(LAMBDA kv :
                IF ~IsDict(kv[2]) THEN <<>>
                ELSE LET content == GetOr(kv[2], K_content, EmptyDict) IN
                     IF ~IsDict(content) THEN <<>>
                     ELSE LET aj == GetN(content, K_application_json) IN
                          IF ~IsDict(aj) THEN <<>>
                          ELSE IF IsDict(GetN(aj, K_schema))
                               THEN <<[where |-> [loc |-> "response",
                                                  method |-> Upper(o.method),
                                                  path |-> o.path, code |-> kv[1]],
                                       sch |-> GetN(aj, K_schema)]>>
                               ELSE <<>>,
            Items(OperationResponses(o.op)))

_iter_object_schemas(d) ==
    LET it == iter_operations(d) IN
    [raised |-> \/ ComponentSchemasRaise(d)
                \/ it.raised
                \/ \E i \in 1..Len(it.ops) : ~IsDict(OperationResponses(it.ops[i].op)),
     schemas |->
        FlatMap(LAMBDA kv :
                    IF IsDict(kv[2])
                    THEN <<[where |-> [loc |-> "components.schemas", name |-> kv[1]],
                            sch |-> kv[2]]>>
                    ELSE <<>>,
                Items(ComponentSchemas(d)))
        \o FlatMap(LAMBDA o : RequestBodySchema(o) \o ResponseSchemas(o), it.ops)]

\* ------------------------------------------------------------------------
\* _schema_props_and_required
\* ------------------------------------------------------------------------
\* Line 399: the schema is treated as an object schema.
IsObjectShaped(schema) ==
    ~(GetN(schema, K_type) # V_object /\ ~HasKey(schema, K_properties))

\* Line 404: which entries of properties are kept.
KeepProperty(k, val) == IsStr(k) /\ IsDict(val)

_schema_props_and_required(schema) ==
    IF ~IsDict(schema) \/ ~IsObjectShaped(schema)
    THEN [raised |-> FALSE, props |-> <<>>, req |-> {}]
    ELSE LET props == GetOr(schema, K_properties, EmptyDict)
             required == GetOr(schema, K_required, EmptyList)
         IN IF \/ ~Iterable(required)
               \/ \E i \in 1..Len(Elems(required)) : ~Hashable(Elems(required)[i])
               \/ ~IsDict(props)
            THEN [raised |-> TRUE, props |-> <<>>, req |-> {}]
            ELSE [raised |-> FALSE,
                  props |-> SelectSeq(Items(props), LAMBDA kv : KeepProperty(kv[1], kv[2])),
                  req |-> {Elems(required)[i].v :
                              i \in {j \in 1..Len(Elems(required)) :
                                        IsStr(Elems(required)[j])}}]

\* ------------------------------------------------------------------------
\* check_schema_types_and_required
\* ------------------------------------------------------------------------
T_string == Str(<<"s","t","r","i","n","g">>)
T_number == Str(<<"n","u","m","b","e","r">>)
T_integer == Str(<<"i","n","t","e","g","e","r">>)
T_boolean == Str(<<"b","o","o","l","e","a","n">>)
T_array == Str(<<"a","r","r","a","y">>)

_ALLOWED_TYPES == {T_string, T_number, T_integer, T_boolean, T_array, V_object}

\* _ALLOWED_FORMATS.get(ty, set())
_ALLOWED_FORMATS(ty) ==
    IF ty = T_string
    THEN {Str(<<"d","a","t","e">>), Str(<<"d","a","t","e","-","t","i","m","e">>),
          Str(<<"u","u","i","d">>), Str(<<"e","m","a","i","l">>),
          Str(<<"u","r","i">>), Str(<<"b","i","n","a","r","y">>),
          Str(<<"b","y","t","e">>), Str(<<"p","a","s","s","w","o","r","d">>)}
    ELSE IF ty = T_integer
    THEN {Str(<<"i","n","t","3","2">>), Str(<<"i","n","t","6","4">>)}
    ELSE IF ty = T_number
    THEN {Str(<<"f","l","o","a","t">>), Str(<<"d","o","u","b","l","e">>)}
    ELSE {}

\* Line 428: the property is a reference or a composition.
IsRefOrComposition(meta) ==
    HasKey(meta, K_ref) \/ \E k \in {K_oneOf, K_anyOf, K_allOf} : HasKey(meta, k)

\* Lines 421-423: one `required` name against the kept properties.
RequiredIssue(where, props, n) ==
    IF ~\E i \in 1..Len(props) : props[i][1] = Str(n)
    THEN <<[kind |-> "required_not_in_properties", where |-> where, name |-> Str(n)]>>
    ELSE <<>>

\* Lines 426-442 for one property.
PropertyTypeIssues(where, pname, meta) ==
    IF IsRefOrComposition(meta) THEN <<>>
    ELSE LET ty == GetN(meta, K_type)
             fmt == GetN(meta, K_format)
         IN IF ~Truthy(ty)
            THEN <<[kind |-> "missing_type", where |-> where, name |-> pname]>>
            ELSE (IF ty \notin _ALLOWED_TYPES
                  THEN <<[kind |-> "unknown_type", where |-> where, name |-> pname,
                          type |-> ty]>>
                  ELSE <<>>)
                 \o
                 (IF Truthy(fmt) /\ _ALLOWED_FORMATS(ty) # {} /\ fmt \notin _ALLOWED_FORMATS(ty)
                  THEN <<[kind |-> "format_not_typical", where |-> where, name |-> pname,
                          format |-> fmt, type |-> ty]>>
                  ELSE <<>>)

\* The membership tests of lines 435 and 441 hash ty and fmt.
PropertyTypeRaises(meta) ==
    /\ ~IsRefOrComposition(meta)
    /\ Truthy(GetN(meta, K_type))
    /\ \/ ~Hashable(GetN(meta, K_type))
       \/ /\ Truthy(GetN(meta, K_format))
          /\ _ALLOWED_FORMATS(GetN(meta, K_type)) # {}
          /\ ~Hashable(GetN(meta, K_format))

\* Body of the loop over schemas.
SchemaTypeIssues(e) ==
    LET pr == _schema_props_and_required(e.sch) IN
    FlatMap(LAMBDA n : RequiredIssue(e.where, pr.props, n), Sorted(pr.req))
       \o FlatMap(LAMBDA kv : PropertyTypeIssues(e.where, kv[1], kv[2]), pr.props)

SchemaTypeRaises(e) ==
    LET pr == _schema_props_and_required(e.sch) IN
    pr.raised \/ \E i \in 1..Len(pr.props) : PropertyTypeRaises(pr.props[i][2])

check_schema_types_and_required(d) ==
    LET it == _iter_object_schemas(d) IN
    IF it.raised \/ \E i \in 1..Len(it.schemas) : SchemaTypeRaises(it.schemas[i])
    THEN Raised
    ELSE Ok(FlatMap(SchemaTypeIssues, it.schemas))

\* ------------------------------------------------------------------------
\* check_nullable_vs_optional
\* ------------------------------------------------------------------------
\* Line 467.
has_null_in_type(meta) ==
    LET ty == GetN(meta, K_type) IN
    (IsList(ty) /\ \E i \in 1..Len(ty.v) : ty.v[i] = V_null) \/ ty = V_null

\* Lines 468-470.
has_null_in_any(meta) ==
    IF HasKey(meta, K_oneOf) \/ HasKey(meta, K_anyOf)
    THEN \E key \in {K_oneOf, K_anyOf} :
            /\ IsList(GetN(meta, key))
            /\ \E i \in 1..Len(GetN(meta, key).v) :
                  /\ IsDict(GetN(meta, key).v[i])
                  /\ GetN(GetN(meta, key).v[i], K_type) = V_null
    ELSE FALSE

\* Mutant: the test `and not nullable` of line 472 is lost.
NullableIssues_null_regardless(where, req, pname, meta) ==
    LET nullable == (GetN(meta, K_nullable) = Bool(TRUE))
        is_required == pname.v \in req
    IN (IF nullable /\ ~is_required
        THEN <<[kind |-> "nullable_not_required", where |-> where, name |-> pname]>>
        ELSE <<>>)
       \o
       (IF has_null_in_type(meta) \/ has_null_in_any(meta)
        THEN <<[kind |-> "null_without_nullable", where |-> where, name |-> pname]>>
        ELSE <<>>)

\* Lines 456-473 for one property.
NullableIssues(where, req, pname, meta) ==
    LET nullable == (GetN(meta, K_nullable) = Bool(TRUE))
        is_required == pname.v \in req
    IN (IF nullable /\ ~is_required
        THEN <<[kind |-> "nullable_not_required", where |-> where, name |-> pname]>>
        ELSE <<>>)
       \o
       (IF (has_null_in_type(meta) \/ has_null_in_any(meta)) /\ ~nullable
        THEN <<[kind |-> "null_without_nullable", where |-> where, name |-> pname]>>
        ELSE <<>>)

check_nullable_vs_optional(d) ==
    LET it == _iter_object_schemas(d) IN
    IF \/ it.raised
       \/ \E i \in 1..Len(it.schemas) : _schema_props_and_required(it.schemas[i].sch).raised
    THEN Raised
    ELSE Ok(FlatMap(LAMBDA e :
                       LET pr == _schema_props_and_required(e.sch) IN
                       FlatMap(LAMBDA kv : NullableIssues(e.where, pr.req, kv[1], kv[2]),
                               pr.props),
                    it.schemas))

\* ------------------------------------------------------------------------
\* check_examples_presence
\* ------------------------------------------------------------------------
\* Line 520: number of properties from which a component schema should
\* carry an example.
ExampleMinProps == 3

\* x.get("example") or x.get("examples") is truthy.
HasExample(x) == Truthy(GetN(x, K_example)) \/ Truthy(GetN(x, K_examples))

\* Lines 493-495 and 508-510: the media type aj lacks an example.
MediaTypeLacksExample(aj) ==
    LET schema == GetOr(aj, K_schema, EmptyDict) IN
    ~HasExample(aj) /\ IsDict(schema) /\ ~HasExample(schema)

RECURSIVE LeadingDigit(_)
LeadingDigit(n) == IF n < 10 THEN n ELSE LeadingDigit(n \div 10)

\* str(code).startswith("2")
CodeStartsWith2(code) ==
    CASE code.t = "str" -> code.v # <<>> /\ code.v[1] = "2"
      [] code.t = "num" -> code.v >= 0 /\ LeadingDigit(code.v) = 2
      [] OTHER -> FALSE

\* Lines 488-496.
RequestExampleIssue(o) ==
    LET rb == GetN(o.op, K_requestBody) IN
    IF ~IsDict(rb) THEN <<>>
    ELSE LET aj == GetN(GetOr(rb, K_content, EmptyDict), K_application_json) IN
         IF IsDict(aj) /\ MediaTypeLacksExample(aj)
         THEN <<[kind |-> "request_no_example", method |-> Upper(o.method),
                 path |-> o.path]>>
         ELSE <<>>

\* Lines 499-511.
ResponseExampleIssues(o) ==
    FlatMap(LAMBDA kv :
                IF ~IsDict(kv[2]) \/ ~CodeStartsWith2(kv[1]) THEN <<>>
                ELSE LET aj == GetN(GetOr(kv[2], K_content, EmptyDict), K_application_json)
                     IN IF IsDict(aj) /\ MediaTypeLacksExample(aj)
                        THEN <<[kind |-> "response_no_example",
                                method |-> Upper(o.method), path |-> o.path,
                                code |-> kv[1]]>>
                        ELSE <<>>,
            Items(OperationResponses(o.op)))

\* content.get raises in the request or response part of one operation.
OperationExamplesRaise(o) ==
    \/ /\ IsDict(GetN(o.op, K_requestBody))
       /\ ~IsDict(GetOr(GetN(o.op, K_requestBody), K_content, EmptyDict))
    \/ ~IsDict(OperationResponses(o.op))
    \/ \E i \in 1..Len(Items(OperationResponses(o.op))) :
          LET kv == Items(OperationResponses(o.op))[i] IN
          /\ IsDict(kv[2])
          /\ CodeStartsWith2(kv[1])
          /\ ~IsDict(GetOr(kv[2], K_content, EmptyDict))

\* Mutant: `>` for `>=` at line 520.
ComponentExampleIssue_strictly_more(sname, sch) ==
    IF ~IsDict(sch) THEN <<>>
    ELSE LET props == GetOr(sch, K_properties, EmptyDict) IN
         IF IsDict(props) /\ Len(props.v) > ExampleMinProps /\ ~HasExample(sch)
         THEN <<[kind |-> "component_no_example", name |-> sname]>>
         ELSE <<>>

\* Lines 516-522 for one component schema.
ComponentExampleIssue(sname, sch) ==
    IF ~IsDict(sch) THEN <<>>
    ELSE LET props == GetOr(sch, K_properties, EmptyDict) IN
         IF IsDict(props) /\ Len(props.v) >= ExampleMinProps /\ ~HasExample(sch)
         THEN <<[kind |-> "component_no_example", name |-> sname]>>
         ELSE <<>>

check_examples_presence(d) ==
    LET it == iter_operations(d) IN
    IF \/ it.raised
       \/ \E i \in 1..Len(it.ops) : OperationExamplesRaise(it.ops[i])
       \/ ComponentSchemasRaise(d)
    THEN Raised
    ELSE Ok(FlatMap(LAMBDA o : RequestExampleIssue(o) \o ResponseExampleIssues(o), it.ops)
            \o FlatMap(LAMBDA kv : ComponentExampleIssue(kv[1], kv[2]),
                       Items(ComponentSchemas(d))))

\* ------------------------------------------------------------------------
\* check_dry_refs
\* ------------------------------------------------------------------------
\* Line 541: min_props passed by check_dry_refs.
min_props == 5

_is_large_inline_object(schema, n) ==
    IF ~IsDict(schema) THEN FALSE
    ELSE IF HasKey(schema, K_ref) THEN FALSE
    ELSE IF GetN(schema, K_type) = V_object /\ IsDict(GetN(schema, K_properties))
    THEN Len(GetN(schema, K_properties).v) >= n
    ELSE FALSE

check_dry_refs(d) ==
    LET it == _iter_object_schemas(d) IN
    IF it.raised THEN Raised
    ELSE Ok(FlatMap(LAMBDA e :
                       IF _is_large_inline_object(e.sch, min_props)
                       THEN <<[kind |-> "large_inline_object", where |-> e.where]>>
                       ELSE <<>>,
                    it.schemas))

\* ------------------------------------------------------------------------
\* Strings over an alphabet, up to a length
\* ------------------------------------------------------------------------
RECURSIVE StringsUpTo(_, _)
\* All sequences over alphabet of length 0..n.
StringsUpTo(alphabet, n) ==
    IF n = 0 THEN {<<>>}
    ELSE LET shorter == StringsUpTo(alphabet, n - 1)
         IN shorter \cup {Append(w, c) : w \in shorter, c \in alphabet}

\* ------------------------------------------------------------------------
\* Inputs of the naming-style specification
\* ------------------------------------------------------------------------
MaxNameLen == 3

N_userId == <<"u","s","e","r","I","d">>
N_user_id == <<"u","s","e","r","_","i","d">>
N_user_dash_id == <<"u","s","e","r","-","i","d">>
N_UserId == <<"U","s","e","r","I","d">>
N_id == <<"i","d">>

StyleAlphabet == {"a", "B", "_", "-", "1"}

StyleNames ==
    {N_userId, N_user_id, N_user_dash_id, N_UserId, N_id}
        \cup StringsUpTo(StyleAlphabet, MaxNameLen)

\* ------------------------------------------------------------------------
\* State machine: a caller holding a document (and a name) calls the
\* functions of checks.py; fn is the function called last, out its result.
\* ------------------------------------------------------------------------
Call(f, result) ==
    /\ fn' = f
    /\ out' = result
    /\ UNCHANGED <<spec, name, hashseed>>
    /\ UNCHANGED audit_vars

Call_detect_style ==
    Call("detect_style", detect_style(name))
Call_iter_operations ==
    Call("iter_operations", iter_operations(spec))
Call_check_unique_operation_ids ==
    Call("check_unique_operation_ids", check_unique_operation_ids(spec))
Call_check_path_params_defined ==
    Call("check_path_params_defined", check_path_params_defined(spec, hashseed))
Call_check_verbs_in_path ==
    Call("check_verbs_in_path", check_verbs_in_path(spec))
Call_check_plural_collections ==
    Call("check_plural_collections", check_plural_collections(spec))
Call_check_json_keys_style ==
    Call("check_json_keys_style", check_json_keys_style(spec))
Call_check_param_names_style ==
    Call("check_param_names_style", check_param_names_style(spec))
Call_check_versioning_present ==
    Call("check_versioning_present", check_versioning_present(spec))
Call_check_schema_types_and_required ==
    Call("check_schema_types_and_required", check_schema_types_and_required(spec))
Call_check_nullable_vs_optional ==
    Call("check_nullable_vs_optional", check_nullable_vs_optional(spec))
Call_check_examples_presence ==
    Call("check_examples_presence", check_examples_presence(spec))
Call_check_dry_refs ==
    Call("check_dry_refs", check_dry_refs(spec))

Next ==
    \/ Call_detect_style
    \/ Call_iter_operations
    \/ Call_check_unique_operation_ids
    \/ Call_check_path_params_defined
    \/ Call_check_verbs_in_path
    \/ Call_check_plural_collections
    \/ Call_check_json_keys_style
    \/ Call_check_param_names_style
    \/ Call_check_versioning_present
    \/ Call_check_schema_types_and_required
    \/ Call_check_nullable_vs_optional
    \/ Call_check_examples_presence
    \/ Call_check_dry_refs

CheckNames ==
    {"check_unique_operation_ids", "check_path_params_defined", "check_verbs_in_path",
     "check_plural_collections", "check_json_keys_style", "check_param_names_style",
     "check_versioning_present", "check_schema_types_and_required",
     "check_nullable_vs_optional", "check_examples_presence", "check_dry_refs"}

\* No run of the audit command: no target file, no report.
NoFile == [exists |-> FALSE, suffix |-> <<>>, content |-> NoneV]
NoReport == [written |-> FALSE, sections |-> <<>>]

NoAudit ==
    /\ file = NoFile
    /\ pc = "idle"
    /\ invoked = <<>>
    /\ error = "none"
    /\ report = NoReport

\* State before any call.
NotCalled(doc, nm, seed) ==
    /\ spec = doc
    /\ name = nm
    /\ hashseed = seed
    /\ fn = "none"
    /\ out = Ok(<<>>)
    /\ NoAudit

\* Naming-style specification: the name ranges over StyleNames.
InitStyle == \E nm \in StyleNames : NotCalled(EmptyDict, nm, 0)
SpecStyle == InitStyle /\ [][Next]_vars

\* ------------------------------------------------------------------------
\* C4 (as amended): detect_style classifies "userId" as camel, "user_id" as
\* snake, "user-id" as other, "UserId" as other, and "id" and every other
\* non-empty name made only of lowercase letters as camel.
\* ------------------------------------------------------------------------
IsAllLower(s) == s # <<>> /\ \A i \in 1..Len(s) : s[i] \in LowerChars

C4_StyleExamplesLowercaseCamel ==
    fn = "detect_style" =>
        /\ name = N_userId => out = "camel"
        /\ name = N_user_id => out = "snake"
        /\ name = N_user_dash_id => out = "other"
        /\ name = N_UserId => out = "other"
        /\ IsAllLower(name) => out = "camel"

\* C4 as stated: the same, with all-lowercase names (such as "id") snake.
C4_Original_LowercaseSnake ==
    fn = "detect_style" =>
        /\ name = N_userId => out = "camel"
        /\ name = N_user_id => out = "snake"
        /\ name = N_user_dash_id => out = "other"
        /\ name = N_UserId => out = "other"
        /\ IsAllLower(name) => out = "snake"

C4_Witness == fn = "detect_style" /\ name = N_id /\ out = "camel"

\* ------------------------------------------------------------------------
\* Building documents
\* ------------------------------------------------------------------------
S_foo == Str(<<"f","o","o">>)
S_bar == Str(<<"b","a","r">>)
P_x == Str(<<"/","x">>)
P_y == Str(<<"/","y">>)

\* A mapping with one entry, and a document with only a `paths` mapping.
Dict1(k, val) == Dict(<<<<k, val>>>>)
DocWithPaths(paths) == Dict1(K_paths, paths)

RECURSIVE AddOperations(_, _)
\* The `paths` entries after adding the operations es (records with path,
\* key and op) one by one: a new path is appended, a new method key is
\* appended to its path item.
AddOperations(paths, es) ==
    IF es = <<>> THEN paths
    ELSE LET e == Head(es)
             item == Get(Dict(paths), e.path, EmptyDict)
         IN AddOperations(DictSet(paths, e.path, Dict(DictSet(item.v, e.key, e.op))),
                          Tail(es))

\* ------------------------------------------------------------------------
\* Inputs of the operationId specification: up to MaxOps operations on
\* /x and /y, methods get and post, each with operationId absent, empty,
\* "foo" or "bar", in every document order.
\* ------------------------------------------------------------------------
MaxOps == 3

IdOperationChoices ==
    [path : {P_x, P_y},
     key : {Str(M_get), Str(M_post)},
     op : {EmptyDict, Dict1(K_operationId, EmptyStr),
           Dict1(K_operationId, S_foo), Dict1(K_operationId, S_bar)}]

IdOperationLists ==
    UNION {{es \in [1..n -> IdOperationChoices] :
               \A i, j \in 1..n :
                   i # j => <<es[i].path, es[i].key>> # <<es[j].path, es[j].key>>} :
           n \in 0..MaxOps}

IdDocs == {DocWithPaths(Dict(AddOperations(<<>>, es))) : es \in IdOperationLists}

InitIds == \E doc \in IdDocs : NotCalled(doc, N_id, 0)
SpecIds == InitIds /\ [][Next]_vars

\* ------------------------------------------------------------------------
\* C2: for every operation B whose non-empty operationId was carried by an
\* earlier operation in traversal order, check_unique_operation_ids emits
\* one duplicate diagnostic naming B's own (method, path) and, as the prior
\* occurrence, the first operation that carried the id; the first
\* operation carrying an id gets no duplicate diagnostic.
\* ------------------------------------------------------------------------
OperationIdAt(ops, i) == GetN(ops[i].op, K_operationId)

\* Index of the first operation in traversal order carrying the id of ops[i].
FirstCarrier(ops, i) ==
    CHOOSE f \in 1..i :
        /\ OperationIdAt(ops, f) = OperationIdAt(ops, i)
        /\ \A g \in 1..(f - 1) : OperationIdAt(ops, g) # OperationIdAt(ops, i)

\* The duplicate diagnostics in issues that are about operation o.
DuplicatesAbout(issues, o) ==
    SelectSeq(issues, LAMBDA x : /\ x.kind = "duplicate_operationId"
                                 /\ x.method = Upper(o.method)
                                 /\ x.path = o.path)

C2_DuplicateNamesFirstOccurrence ==
    (fn = "check_unique_operation_ids" /\ ~out.raised) =>
        LET ops == iter_operations(spec).ops IN
        \A i \in 1..Len(ops) :
            IF Truthy(OperationIdAt(ops, i)) /\ FirstCarrier(ops, i) # i
            THEN /\ Len(DuplicatesAbout(out.issues, ops[i])) = 1
                 /\ DuplicatesAbout(out.issues, ops[i])[1].prev_path
                        = ops[FirstCarrier(ops, i)].path
                 /\ DuplicatesAbout(out.issues, ops[i])[1].prev_method
                        = Upper(ops[FirstCarrier(ops, i)].method)
            ELSE DuplicatesAbout(out.issues, ops[i]) = <<>>

\* Three operations share an id and the diagnostic for the third names the
\* first, which differs from the second.
C2_Witness ==
    /\ fn = "check_unique_operation_ids"
    /\ ~out.raised
    /\ LET ops == iter_operations(spec).ops IN
       /\ Len(ops) = 3
       /\ \A i \in 1..3 : OperationIdAt(ops, i) = S_foo
       /\ ops[1].path # ops[2].path
       /\ Len(DuplicatesAbout(out.issues, ops[3])) = 1
       /\ DuplicatesAbout(out.issues, ops[3])[1].prev_path = ops[1].path

\* ------------------------------------------------------------------------
\* Inputs of the path-parameter specification: one GET operation on
\* /users/{id}, /users or /a/{id}/{x}; at most one path-level declaration
\* and up to MaxParams operation-level declarations, each with name id or
\* x, in path or query, and required true, false or absent.
\* ------------------------------------------------------------------------
MaxParams == 1

P_users_id == Str(<<"/","u","s","e","r","s","/","{","i","d","}">>)
P_users == Str(<<"/","u","s","e","r","s">>)
P_a_id_x == Str(<<"/","a","/","{","i","d","}","/","{","x","}">>)
S_id == Str(N_id)
S_x == Str(<<"x">>)

ParamDecls ==
    {Dict(<<<<K_name, n>>, <<K_in, i>>>> \o r) :
        n \in {S_id, S_x},
        i \in {V_path, V_query},
        r \in {<<>>, <<<<K_required, Bool(TRUE)>>>>, <<<<K_required, Bool(FALSE)>>>>}}

ParamLists(n) == UNION {[1..k -> ParamDecls] : k \in 0..n}

\* A mapping holding `parameters` (when the list is not empty) and more.
WithParams(ps, rest) ==
    Dict((IF ps = <<>> THEN <<>> ELSE <<<<K_parameters, List(ps)>>>>) \o rest)

ParamDoc(path, path_level, op_level) ==
    DocWithPaths(Dict1(path, WithParams(path_level,
                                        <<<<Str(M_get), WithParams(op_level, <<>>)>>>>)))

ParamDocs ==
    {ParamDoc(path, pl, ol) :
        path \in {P_users_id, P_users, P_a_id_x},
        pl \in ParamLists(1),
        ol \in ParamLists(MaxParams)}

\* The hash seed only orders sets of two or more placeholder names.
ParamSeeds(doc) ==
    IF Len(PARAM_PATTERN_findall(Items(GetN(doc, K_paths))[1][1].v)) > 1
    THEN {0, 1} ELSE {0}

InitParams == \E doc \in ParamDocs : \E seed \in ParamSeeds(doc) : NotCalled(doc, N_id, seed)
SpecParams == InitParams /\ [][Next]_vars

\* The document's single path, its path item and its operation.
ThePath == Items(GetN(spec, K_paths))[1][1]
TheItem == Items(GetN(spec, K_paths))[1][2]
TheOp == GetN(TheItem, Str(M_get))

\* Declarations of `owner` (path item or operation) with the given name.
DeclsNamed(owner, n) ==
    SelectSeq(Elems(GetOr(owner, K_parameters, EmptyList)),
              LAMBDA p : IsDict(p) /\ GetN(p, K_name) = n)

\* Number of diagnostics of a kind about parameter n.
CountAbout(issues, kind, n) ==
    Len(SelectSeq(issues, LAMBDA x : x.kind = kind /\ x.name = n))

IsRequiredPathDecl(p) == GetN(p, K_in) = V_path /\ GetN(p, K_required) = Bool(TRUE)
IsOptionalPathDecl(p) == GetN(p, K_in) = V_path /\ GetN(p, K_required) # Bool(TRUE)

\* Every element of s satisfies P, and there is one.
AllAndSome(P(_), s) == s # <<>> /\ \A i \in 1..Len(s) : P(s[i])

IsNonPathDecl(p) == GetN(p, K_in) # V_path

C5_WrongInIsReportedAsSuch ==
    (/\ fn = "check_path_params_defined"
     /\ ThePath = P_users_id
     /\ AllAndSome(IsNonPathDecl, DeclsNamed(TheOp, S_id) \o DeclsNamed(TheItem, S_id)))
        => /\ CountAbout(out.issues, "param_should_be_in_path", S_id) = 1
           /\ CountAbout(out.issues, "param_missing", S_id) = 0

\* ------------------------------------------------------------------------
\* C6 (as amended): for every operation on every path that has at least
\* one {name} placeholder, each name declared in: path at path level or at
\* operation level that is not a placeholder of the path's template yields
\* exactly one orphan diagnostic.
\* ------------------------------------------------------------------------
\* Some declaration of n visible to the document's operation is in: path.
DeclaredInPath(n) ==
    \E i \in 1..Len(DeclsNamed(TheOp, n) \o DeclsNamed(TheItem, n)) :
        GetN((DeclsNamed(TheOp, n) \o DeclsNamed(TheItem, n))[i], K_in) = V_path

\* "{n}" occurs in the path template.
IsPlaceholder(path, n) ==
    \E i \in 1..Len(path.v) :
        /\ i + Len(n.v) + 1 <= Len(path.v)
        /\ SubSeq(path.v, i, i + Len(n.v) + 1) = <<"{">> \o n.v \o <<"}">>

HasPlaceholder(path) == \E n \in {S_id, S_x} : IsPlaceholder(path, n)

C6_OrphanOnTemplatedPaths ==
    (fn = "check_path_params_defined" /\ HasPlaceholder(ThePath)) =>
        \A n \in {S_id, S_x} :
            (DeclaredInPath(n) /\ ~IsPlaceholder(ThePath, n))
                => CountAbout(out.issues, "param_orphan", n) = 1

\* C6 as stated: the same on every path, with or without placeholders.
C6_Original_OrphanOnEveryPath ==
    fn = "check_path_params_defined" =>
        \A n \in {S_id, S_x} :
            (DeclaredInPath(n) /\ ~IsPlaceholder(ThePath, n))
                => CountAbout(out.issues, "param_orphan", n) = 1

\* x is declared in: path on /users/{id} and reported as an orphan.
C6_Witness ==
    /\ fn = "check_path_params_defined"
    /\ ThePath = P_users_id
    /\ DeclaredInPath(S_x)
    /\ CountAbout(out.issues, "param_orphan", S_x) = 1

\* ------------------------------------------------------------------------
\* C7: whenever the operation declares a parameter with the same name as a
\* path-level parameter, only the operation-level declaration is judged:
\* the diagnostics are those of the same document without the path-level
\* declaration, for every combination of the two declarations.
\* ------------------------------------------------------------------------
\* Every path-level declaration has an operation-level one of the same name.
OperationOverridesAll ==
    /\ GetN(TheItem, K_parameters) # NoneV
    /\ \A n \in {S_id, S_x} :
          DeclsNamed(TheItem, n) # <<>> => DeclsNamed(TheOp, n) # <<>>

\* The document without its path-level parameters.
WithoutPathLevel ==
    DocWithPaths(Dict1(ThePath, Dict1(Str(M_get), TheOp)))

C7_OperationLevelAloneIsJudged ==
    (fn = "check_path_params_defined" /\ OperationOverridesAll) =>
        out = check_path_params_defined(WithoutPathLevel, hashseed)

\* ------------------------------------------------------------------------
\* Inputs of the plural-collection specification: one operation (key get,
\* GET or post) on /users, /user, /users/{id}, /user/{id} or any string of
\* up to MaxPathLen characters of PluralAlphabet, optionally followed by
\* GET /user.
\* ------------------------------------------------------------------------
MaxPathLen == 3

P_user == Str(<<"/","u","s","e","r">>)
P_user_id == Str(<<"/","u","s","e","r","/","{","i","d","}">>)

PluralAlphabet == {"/", "s", "u", "{", "}"}

PluralPaths ==
    {P_users, P_user, P_users_id, P_user_id}
        \cup {Str(w) : w \in StringsUpTo(PluralAlphabet, MaxPathLen)}

PluralDocs ==
    {DocWithPaths(Dict(AddOperations(<<>>,
            <<[path |-> p, key |-> k, op |-> EmptyDict]>> \o more))) :
        p \in PluralPaths,
        k \in {Str(M_get), Str(Upper(M_get)), Str(M_post)},
        more \in {<<>>, <<[path |-> P_user, key |-> Str(M_get), op |-> EmptyDict]>>}}

InitPlural == \E doc \in PluralDocs : NotCalled(doc, N_id, 0)
SpecPlural == InitPlural /\ [][Next]_vars

\* ------------------------------------------------------------------------
\* C8: check_plural_collections emits exactly one diagnostic for each GET
\* operation whose path has no {param} placeholder and whose final
\* non-empty segment does not end in "s", and none otherwise.
\* ------------------------------------------------------------------------
\* The path holds "{", one or more characters other than "}" and "/", "}".
ContainsPlaceholder(p) ==
    \E i, j \in 1..Len(p) :
        /\ j >= i + 2
        /\ p[i] = "{"
        /\ p[j] = "}"
        /\ \A k \in (i + 1)..(j - 1) : p[k] \notin {"}", "/"}

\* The last character of the path that is not "/" is an "s".
FinalSegmentEndsInS(p) ==
    \E i \in 1..Len(p) : p[i] = "s" /\ \A k \in (i + 1)..Len(p) : p[k] = "/"

ShouldBePlural(o) ==
    /\ o.method = M_get
    /\ ~ContainsPlaceholder(o.path.v)
    /\ ~FinalSegmentEndsInS(o.path.v)

C8_PluralCollections ==
    fn = "check_plural_collections" =>
        LET ops == iter_operations(spec).ops IN
        /\ ~out.raised
        /\ Len(out.issues) = Len(SelectSeq(ops, ShouldBePlural))
        /\ \A i \in 1..Len(ops) :
              Len(SelectSeq(out.issues, LAMBDA x : x.path = ops[i].path))
                  = Len(SelectSeq(ops, LAMBDA o : o.path = ops[i].path
                                                   /\ ShouldBePlural(o)))

\* GET /users then GET /user: one diagnostic, about /user.
C8_Witness ==
    /\ fn = "check_plural_collections"
    /\ Keys(GetN(spec, K_paths)) = <<P_users, P_user>>
    /\ Len(iter_operations(spec).ops) = 2
    /\ iter_operations(spec).ops[1].method = M_get
    /\ Len(out.issues) = 1
    /\ out.issues[1].path = P_user

\* ------------------------------------------------------------------------
\* Inputs of the versioning specification: documents with `openapi`,
\* `swagger`, both or neither; `servers` absent, null, empty, a scalar, a
\* string, a mapping, or a list of one or two entries (mappings with a
\* string or non-string url, or non-mappings); `basePath` absent, a string
\* or a non-string.  URLs are the strings of up to MaxUrlLen characters of
\* VersionAlphabet.
\* ------------------------------------------------------------------------
MaxUrlLen == 4

VersionAlphabet == {"/", "v", "1", "_", "-"}

VersionUrls == {Str(w) : w \in StringsUpTo(VersionAlphabet, MaxUrlLen)}

S_3_0 == Str(<<"3",".","0",".","0">>)
S_2_0 == Str(<<"2",".","0">>)
U_plain == Str(<<"a","p","i">>)

ServerEntries ==
    {Dict1(K_url, u) : u \in VersionUrls}
        \cup VersionUrls
        \cup {EmptyDict, NoneV, Dict1(K_url, Num(1)), Dict1(K_url, List(<<Str(<<"/","v","1">>)>>))}

ServersValues ==
    {NoneV, EmptyList, EmptyDict, EmptyStr, Num(0), Bool(FALSE), Num(5), Bool(TRUE),
     Str(<<"/","v","1">>), Dict1(K_url, Str(<<"/","v","1">>))}
        \cup {List(<<e>>) : e \in ServerEntries}
        \cup {List(<<Dict1(K_url, U_plain), e>>) : e \in ServerEntries}

BasePathValues == VersionUrls \cup {NoneV, Num(5), List(<<Str(<<"/","v","1">>)>>)}

VersionDocs ==
    {Dict1(K_openapi, S_3_0), Dict1(K_swagger, S_2_0), EmptyDict,
     Dict(<<<<K_swagger, S_2_0>>, <<K_openapi, S_3_0>>,
            <<K_basePath, Str(<<"/","v","1">>)>>>>)}
        \cup {Dict(<<<<K_openapi, S_3_0>>, <<K_servers, sv>>>>) : sv \in ServersValues}
        \cup {Dict(<<<<K_swagger, S_2_0>>, <<K_basePath, b>>>>) : b \in BasePathValues}
        \cup {Dict(<<<<K_servers, sv>>, <<K_basePath, Str(<<"a">>)>>>>) :
                 sv \in {EmptyList, List(<<Dict1(K_url, U_plain)>>)}}

InitVersion == \E doc \in VersionDocs : NotCalled(doc, N_id, 0)
SpecVersion == InitVersion /\ [][Next]_vars

\* ------------------------------------------------------------------------
\* C9: check_versioning_present returns at most one diagnostic for any
\* document.  With key `openapi`: none iff some servers entry is a mapping
\* whose url is a string containing a /v<digits> segment, exactly one "No
\* servers defined" iff servers is absent or empty, exactly one "No version
\* segment" otherwise.  With key `swagger` and no `openapi`: one diagnostic
\* iff basePath is absent/empty or lacks the version segment.  With
\* neither key: none.
\* ------------------------------------------------------------------------
\* s holds "/v", digits, and then ends or goes on with a non-word character.
HasVersionSegment(s) ==
    \E i, j \in 1..Len(s) :
        /\ j >= i + 2
        /\ s[i] = "/"
        /\ s[i + 1] = "v"
        /\ \A k \in (i + 2)..j : s[k] \in DigitChars
        /\ (j = Len(s) \/ s[j + 1] \notin WordChars)

SomeServerVersioned(servers) ==
    /\ IsList(servers)
    /\ \E i \in 1..Len(servers.v) :
          /\ IsDict(servers.v[i])
          /\ HasKey(servers.v[i], K_url)
          /\ IsStr(GetN(servers.v[i], K_url))
          /\ HasVersionSegment(GetN(servers.v[i], K_url).v)

AbsentOrEmpty(x) ==
    x \in {NoneV, EmptyList, EmptyDict, EmptyStr, Num(0), Bool(FALSE)}

C9_VersioningCases ==
    fn = "check_versioning_present" =>
        /\ ~out.raised
        /\ Len(out.issues) <= 1
        /\ IF HasKey(spec, K_openapi)
           THEN /\ out.issues = <<>> <=> SomeServerVersioned(GetN(spec, K_servers))
                /\ out.issues = <<[kind |-> "no_servers"]>>
                      <=> AbsentOrEmpty(GetN(spec, K_servers))
                /\ out.issues = <<[kind |-> "no_version_in_servers"]>>
                      <=> (/\ ~SomeServerVersioned(GetN(spec, K_servers))
                           /\ ~AbsentOrEmpty(GetN(spec, K_servers)))
           ELSE IF HasKey(spec, K_swagger)
           THEN Len(out.issues) = 1
                   <=> \/ AbsentOrEmpty(GetN(spec, K_basePath))
                       \/ ~IsStr(GetN(spec, K_basePath))
                       \/ ~HasVersionSegment(GetN(spec, K_basePath).v)
           ELSE out.issues = <<>>

\* The same cases on the documents whose servers value can be iterated or
\* is falsy; this part of C9 holds.
C9_VersioningCasesWhenReturning ==
    (fn = "check_versioning_present" /\ ~out.raised) => C9_VersioningCases

\* ------------------------------------------------------------------------
\* Inputs of the document-shape specification: a well-formed document in
\* which one place (a value or a key that the checks read) holds a value
\* of every shape a decoder can produce.
\* ------------------------------------------------------------------------
S_a == Str(<<"a">>)
S_200 == Str(<<"2","0","0">>)
S_S == Str(<<"S">>)
S_p == Str(<<"p">>)
P_x_id == Str(<<"/","x","/","{","i","d","}">>)

\* Values of every shape: null, numbers, booleans, strings, sequences
\* and mappings, empty and not.
ShapeValues ==
    {NoneV, Num(0), Num(5), Bool(FALSE), Bool(TRUE), EmptyStr, S_a,
     EmptyList, List(<<S_a>>), List(<<EmptyDict>>), List(<<T_string, V_null>>),
     EmptyDict, Dict1(S_a, Num(1))}

\* Keys of every hashable shape.
ShapeKeys == {NoneV, Num(5), Num(200), Bool(TRUE), S_a, S_200, Str(M_get)}

DocWithOperation(op) == DocWithPaths(Dict1(P_x_id, Dict1(Str(M_get), op)))
DocWithParameter(p) == DocWithOperation(Dict1(K_parameters, List(<<p>>)))
DocWithResponse(r) == DocWithOperation(Dict1(K_responses, Dict1(S_200, r)))
DocWithRequestBody(rb) == DocWithOperation(Dict1(K_requestBody, rb))
DocWithComponent(sch) == Dict1(K_components, Dict1(K_schemas, Dict1(S_S, sch)))
DocWithProperty(meta) ==
    DocWithComponent(Dict(<<<<K_type, V_object>>, <<K_properties, Dict1(S_p, meta)>>>>))

\* The documents with the value x in one place.
ValueShapeDocs(x) ==
    {Dict1(K_paths, x),
     DocWithPaths(Dict1(P_x_id, x)),
     DocWithPaths(Dict1(P_x_id, Dict1(K_parameters, x))),
     DocWithOperation(x),
     DocWithOperation(Dict1(K_operationId, x)),
     DocWithOperation(Dict1(K_parameters, x)),
     DocWithParameter(x),
     DocWithParameter(Dict(<<<<K_name, S_id>>, <<K_in, x>>>>)),
     DocWithParameter(Dict(<<<<K_name, x>>, <<K_in, V_path>>>>)),
     DocWithParameter(Dict(<<<<K_name, S_id>>, <<K_in, V_path>>, <<K_required, x>>>>)),
     DocWithOperation(Dict1(K_responses, x)),
     DocWithResponse(x),
     DocWithResponse(Dict1(K_content, x)),
     DocWithResponse(Dict1(K_content, Dict1(K_application_json, x))),
     DocWithResponse(Dict1(K_content, Dict1(K_application_json, Dict1(K_schema, x)))),
     DocWithRequestBody(x),
     DocWithRequestBody(Dict1(K_content, x)),
     DocWithRequestBody(Dict1(K_content, Dict1(K_application_json, x))),
     DocWithRequestBody(Dict1(K_content, Dict1(K_application_json, Dict1(K_schema, x)))),
     Dict1(K_components, x),
     Dict1(K_components, Dict1(K_schemas, x)),
     DocWithComponent(x),
     DocWithComponent(Dict1(K_properties, x)),
     DocWithComponent(Dict(<<<<K_type, V_object>>, <<K_required, x>>>>)),
     DocWithComponent(Dict(<<<<K_type, V_object>>, <<K_required, List(<<x>>)>>>>)),
     DocWithComponent(Dict(<<<<K_type, x>>, <<K_required, List(<<S_a>>)>>>>)),
     DocWithProperty(x),
     DocWithProperty(Dict1(K_type, x)),
     DocWithProperty(Dict(<<<<K_type, T_string>>, <<K_format, x>>>>)),
     DocWithProperty(Dict(<<<<K_type, T_string>>, <<K_nullable, x>>>>)),
     DocWithProperty(Dict1(K_anyOf, x)),
     DocWithProperty(Dict1(K_ref, x)),
     Dict(<<<<K_openapi, S_3_0>>, <<K_servers, x>>>>),
     Dict(<<<<K_openapi, S_3_0>>, <<K_servers, List(<<x>>)>>>>),
     Dict(<<<<K_openapi, S_3_0>>, <<K_servers, List(<<Dict1(K_url, x)>>)>>>>),
     Dict(<<<<K_swagger, S_2_0>>, <<K_basePath, x>>>>),
     Dict1(K_openapi, x)}

\* The documents with the key k in one place.
KeyShapeDocs(k) ==
    {Dict1(k, EmptyDict),
     DocWithPaths(Dict1(k, Dict1(Str(M_get), EmptyDict))),
     DocWithPaths(Dict1(k, Num(5))),
     DocWithPaths(Dict1(P_x_id, Dict1(k, EmptyDict))),
     DocWithPaths(Dict1(P_x, Dict(<<<<Str(M_post), EmptyDict>>, <<k, Num(5)>>>>))),
     DocWithOperation(Dict1(K_responses, Dict1(k, EmptyDict))),
     Dict1(K_components, Dict1(K_schemas, Dict1(k, EmptyDict))),
     DocWithComponent(Dict1(K_properties, Dict1(k, EmptyDict)))}

ShapeDocs ==
    UNION {ValueShapeDocs(x) : x \in ShapeValues}
        \cup UNION {KeyShapeDocs(k) : k \in ShapeKeys}

InitShapes == \E doc \in ShapeDocs, seed \in {0, 1} : NotCalled(doc, N_id, seed)
SpecShapes == InitShapes /\ [][Next]_vars

\* ------------------------------------------------------------------------
\* C1: for every well-formed decoded document each of the eleven check
\* functions returns a list of diagnostics and never raises.
\* ------------------------------------------------------------------------
C1_ChecksNeverRaise == fn \in CheckNames => ~out.raised

\* ------------------------------------------------------------------------
\* Inputs of the schema specification: one schema with 0..MaxProps
\* properties, with type absent, object or string, with or without $ref,
\* with no example, a non-empty example, non-empty examples or an empty
\* example, placed in the component registry, in a JSON request body or in
\* a JSON response, while each of the other two places is empty or holds a
\* plain object schema of five properties.
\* ------------------------------------------------------------------------
MaxProps == 6

\* The i-th property name: p, pp, ppp, ...
PropName(i) == Str([j \in 1..i |-> "p"])

\* A properties mapping of k entries, each with the value meta.
Props(k, meta) == Dict([i \in 1..k |-> <<PropName(i), meta>>])

TypeEntries == {<<>>, <<<<K_type, V_object>>>>, <<<<K_type, T_string>>>>}
RefEntries == {<<>>, <<<<K_ref, Str(<<"#","/","S">>)>>>>}
ExampleEntries ==
    {<<>>, <<<<K_example, Dict1(S_p, S_a)>>>>, <<<<K_examples, List(<<EmptyDict>>)>>>>,
     <<<<K_example, EmptyDict>>>>}

SchemaVariants ==
    {Dict(ty \o ref \o <<<<K_properties, Props(k, Dict1(K_type, T_string))>>>> \o ex) :
        ty \in TypeEntries, ref \in RefEntries, ex \in ExampleEntries, k \in 0..MaxProps}
      \cup {Dict(<<<<K_type, V_object>>, <<K_properties, List([i \in 1..5 |-> S_p])>>>>),
            Dict1(K_type, V_object),
            Dict(<<<<K_type, V_object>>, <<K_properties, NoneV>>>>),
            Dict1(K_properties, Props(5, S_a))}

LargePlain == Dict(<<<<K_type, V_object>>, <<K_properties, Props(5, Dict1(K_type, T_string))>>>>)

JsonContent(sch) == Dict1(K_content, Dict1(K_application_json, Dict1(K_schema, sch)))

\* A document with the schemas c, rb and rs (a schema, or NoneV for none)
\* as component S, as request body and as response 200 of POST /x.
SchemaDoc(c, rb, rs) ==
    Dict((IF c = NoneV THEN <<>>
          ELSE <<<<K_components, Dict1(K_schemas, Dict1(S_S, c))>>>>)
         \o
         (IF rb = NoneV /\ rs = NoneV THEN <<>>
          ELSE <<<<K_paths, Dict1(P_x, Dict1(Str(M_post),
                   Dict((IF rb = NoneV THEN <<>>
                         ELSE <<<<K_requestBody, JsonContent(rb)>>>>)
                        \o
                        (IF rs = NoneV THEN <<>>
                         ELSE <<<<K_responses, Dict1(S_200, JsonContent(rs))>>>>))))>>>>))

SchemaDocs ==
    {SchemaDoc(v, o1, o2) : v \in SchemaVariants, o1, o2 \in {NoneV, LargePlain}}
      \cup {SchemaDoc(o1, v, o2) : v \in SchemaVariants, o1, o2 \in {NoneV, LargePlain}}
      \cup {SchemaDoc(o1, o2, v) : v \in SchemaVariants, o1, o2 \in {NoneV, LargePlain}}

InitSchemas == \E doc \in SchemaDocs : NotCalled(doc, N_id, 0)
SpecSchemas == InitSchemas /\ [][Next]_vars

\* The component schemas of the document, as <<name, schema>> pairs.
ComponentEntries == Items(GetOr(GetOr(spec, K_components, EmptyDict), K_schemas, EmptyDict))

\* Number of keys of the schema's properties mapping.
PropertyCount(sch) ==
    IF IsDict(sch) /\ IsDict(GetN(sch, K_properties))
    THEN Len(GetN(sch, K_properties).v) ELSE 0

CarriesExampleKey(sch) == HasKey(sch, K_example) \/ HasKey(sch, K_examples)

CarriesNonEmptyExample(sch) ==
    Truthy(GetN(sch, K_example)) \/ Truthy(GetN(sch, K_examples))

ComponentExampleCount(sname) ==
    Len(SelectSeq(out.issues,
                  LAMBDA x : x.kind = "component_no_example" /\ x.name = sname))

\* ------------------------------------------------------------------------
\* C11 (as amended): check_examples_presence emits the "consider adding
\* example for larger schema" diagnostic for a component schema iff the
\* schema has 3 or more properties and neither example nor examples holds
\* a non-empty value; a component schema with fewer than 3 properties
\* never receives it.
\* ------------------------------------------------------------------------
C11_LargerSchemaFromThree ==
    fn = "check_examples_presence" =>
        /\ ~out.raised
        /\ \A i \in 1..Len(ComponentEntries) :
              LET e == ComponentEntries[i] IN
              ComponentExampleCount(e[1]) =
                  IF PropertyCount(e[2]) >= 3 /\ ~CarriesNonEmptyExample(e[2])
                  THEN 1 ELSE 0

\* C11 as stated: iff the schema has 5 or more properties and carries
\* neither example nor examples.
C11_Original_LargerSchemaFromFive ==
    fn = "check_examples_presence" =>
        /\ ~out.raised
        /\ \A i \in 1..Len(ComponentEntries) :
              LET e == ComponentEntries[i] IN
              ComponentExampleCount(e[1]) =
                  IF PropertyCount(e[2]) >= 5 /\ ~CarriesExampleKey(e[2])
                  THEN 1 ELSE 0

\* A component schema of exactly three properties and no example is flagged.
C11_Witness ==
    /\ fn = "check_examples_presence"
    /\ Len(ComponentEntries) = 1
    /\ PropertyCount(ComponentEntries[1][2]) = 3
    /\ ~CarriesExampleKey(ComponentEntries[1][2])
    /\ ComponentExampleCount(S_S) = 1

\* ------------------------------------------------------------------------
\* Inputs of the property specification: one object schema whose
\* properties are absent, empty, {a: v} or {a: v, b: w}, whose required is
\* absent or a list of up to MaxRequired names among a (a property, when
\* there is one) and c (never a property), with or without type: object,
\* placed in the component registry, in the JSON response 200 of POST /x,
\* or in the JSON request body of the key GET of /x beside a second schema
\* under the key get.
\* ------------------------------------------------------------------------
MaxRequired == 2

S_b == Str(<<"b">>)
S_c == Str(<<"c">>)

NullAlternative == List(<<Dict1(K_type, T_string), Dict1(K_type, V_null)>>)

\* Values of a property: schemas with and without nullable, with and
\* without a JSON Schema null, and values that are not mappings.
PropValues ==
    {Dict1(K_type, T_string),
     Dict(<<<<K_type, T_string>>, <<K_nullable, Bool(TRUE)>>>>),
     Dict(<<<<K_type, T_string>>, <<K_nullable, Str(<<"t","r","u","e">>)>>>>),
     Dict1(K_type, V_null),
     Dict(<<<<K_type, V_null>>, <<K_nullable, Bool(TRUE)>>>>),
     Dict(<<<<K_type, V_null>>, <<K_nullable, Bool(FALSE)>>>>),
     Dict1(K_anyOf, NullAlternative),
     Dict(<<<<K_oneOf, NullAlternative>>, <<K_nullable, Bool(TRUE)>>>>),
     Dict1(K_type, List(<<T_string, V_null>>)),
     Dict(<<<<K_type, List(<<T_string, V_null>>)>>, <<K_nullable, Bool(TRUE)>>>>),
     S_a,
     Bool(TRUE)}

SecondPropValues == {Dict1(K_type, V_null), S_a}

PropertiesEntries ==
    {<<>>, <<<<K_properties, EmptyDict>>>>}
      \cup {<<<<K_properties, Dict1(S_a, v)>>>> : v \in PropValues}
      \cup {<<<<K_properties, Dict(<<<<S_a, v>>, <<S_b, w>>>>)>>>> :
               v \in PropValues, w \in SecondPropValues}

RequiredEntries ==
    {<<>>} \cup {<<<<K_required, List(r)>>>> : r \in StringsUpTo({S_a, S_c}, MaxRequired)}

PropSchemas ==
    {Dict(ty \o pr \o rq) :
        ty \in {<<>>, <<<<K_type, V_object>>>>},
        pr \in PropertiesEntries,
        rq \in RequiredEntries}

\* {properties: {a: {type: string, nullable: true}}}
NullableA ==
    Dict1(K_properties, Dict1(S_a, Dict(<<<<K_type, T_string>>, <<K_nullable, Bool(TRUE)>>>>)))

\* The schema as JSON request body of the key GET of /x, beside NullableA
\* as JSON request body of the key get: both are labelled GET /x requestBody.
TwiceDoc(sch) ==
    DocWithPaths(Dict1(P_x,
        Dict(<<<<Str(Upper(M_get)), Dict1(K_requestBody, JsonContent(sch))>>,
               <<Str(M_get), Dict1(K_requestBody, JsonContent(NullableA))>>>>)))

PropDocs ==
    {SchemaDoc(sch, NoneV, NoneV) : sch \in PropSchemas}
      \cup {SchemaDoc(NoneV, NoneV, sch) : sch \in PropSchemas}
      \cup {TwiceDoc(sch) : sch \in PropSchemas}

InitProps == \E doc \in PropDocs : NotCalled(doc, N_id, 0)
SpecProps == InitProps /\ [][Next]_vars

\* The schemas the checks scan, with their locations.
Scanned == _iter_object_schemas(spec).schemas

\* The names a claim about properties and required speaks of here.
PropNames == {S_a, S_b, S_c}

\* n is an element of the schema's required list.
ListedInRequired(sch, n) ==
    /\ IsList(GetN(sch, K_required))
    /\ \E i \in 1..Len(GetN(sch, K_required).v) : GetN(sch, K_required).v[i] = n

\* n is a key of the schema's properties mapping.
IsPropertyKey(sch, n) == IsDict(GetN(sch, K_properties)) /\ HasKey(GetN(sch, K_properties), n)

\* Number of diagnostics of a kind at location w about the name n.
CountAt(kind, w, n) ==
    Len(SelectSeq(out.issues, LAMBDA x : x.kind = kind /\ x.where = w /\ x.name = n))

\* ------------------------------------------------------------------------
\* C12: check_schema_types_and_required, for every object-shaped schema it
\* scans, emits one "required lists ... but no such property" diagnostic
\* for name n iff n is listed in the schema's required and n is not a key
\* of the schema's properties map; a name that is a key of properties
\* (whatever the shape of its value) never receives it.
\* ------------------------------------------------------------------------
C12_RequiredNamesAreProperties ==
    (fn = "check_schema_types_and_required" /\ ~out.raised) =>
        \A i \in 1..Len(Scanned) : \A n \in PropNames :
            CountAt("required_not_in_properties", Scanned[i].where, n) =
                Cardinality({j \in 1..Len(Scanned) :
                                /\ Scanned[j].where = Scanned[i].where
                                /\ IsObjectShaped(Scanned[j].sch)
                                /\ ListedInRequired(Scanned[j].sch, n)
                                /\ ~IsPropertyKey(Scanned[j].sch, n)})

\* ------------------------------------------------------------------------
\* C17 (as amended): check_nullable_vs_optional never emits both of its
\* diagnostics for the same property of the same scanned schema: the
\* "nullable but not required" suggestion requires nullable to be exactly
\* true and the "allows JSON Schema null" inconsistency requires nullable
\* not to be true.  A (location, property) pair receives at most one
\* diagnostic for each scanned schema that bears the location and has the
\* property; two scanned schemas bear the same location when the method
\* keys of a path item differ only in case.
\* ------------------------------------------------------------------------
\* The scanned schemas at location w whose property n satisfies P.
ScannedWith(w, n, P(_)) ==
    {j \in 1..Len(Scanned) :
        /\ Scanned[j].where = w
        /\ IsPropertyKey(Scanned[j].sch, n)
        /\ P(GetN(GetN(Scanned[j].sch, K_properties), n))}

NullableIsTrue(meta) == IsDict(meta) /\ GetN(meta, K_nullable) = Bool(TRUE)
NullableIsNotTrue(meta) == IsDict(meta) /\ GetN(meta, K_nullable) # Bool(TRUE)
AnyValue(meta) == TRUE

C17_OneDiagnosticPerSchemaProperty ==
    (fn = "check_nullable_vs_optional" /\ ~out.raised) =>
        \A i \in 1..Len(Scanned) : \A n \in PropNames :
            LET w == Scanned[i].where IN
            /\ CountAt("nullable_not_required", w, n)
                  <= Cardinality(ScannedWith(w, n, NullableIsTrue))
            /\ CountAt("null_without_nullable", w, n)
                  <= Cardinality(ScannedWith(w, n, NullableIsNotTrue))
            /\ CountAt("nullable_not_required", w, n) + CountAt("null_without_nullable", w, n)
                  <= Cardinality(ScannedWith(w, n, AnyValue))

\* C17 as stated: each (schema location, property) pair receives at most
\* one diagnostic.
C17_Original_OneDiagnosticPerLocation ==
    (fn = "check_nullable_vs_optional" /\ ~out.raised) =>
        \A i \in 1..Len(Scanned) : \A n \in PropNames :
            CountAt("nullable_not_required", Scanned[i].where, n)
                + CountAt("null_without_nullable", Scanned[i].where, n) <= 1

\* A property that is nullable: true, of type null and not required gets
\* the suggestion only.
C17_Witness ==
    /\ fn = "check_nullable_vs_optional"
    /\ Len(Scanned) = 1
    /\ GetN(GetN(Scanned[1].sch, K_properties), S_a)
          = Dict(<<<<K_type, V_null>>, <<K_nullable, Bool(TRUE)>>>>)
    /\ ~ListedInRequired(Scanned[1].sch, S_a)
    /\ out.issues = <<[kind |-> "nullable_not_required", where |-> Scanned[1].where,
                       name |-> S_a]>>

\* ------------------------------------------------------------------------
\* Inputs of the style-mixing specification.  Names are userId and id
\* (camel), user_id (snake) and user-id (other).  A parameter document
\* declares up to MaxStyleNames parameters on GET /x (in query, path or
\* header) and none or one on the path item; a JSON document gives up to
\* MaxStyleNames distinct properties to component S, to the JSON response
\* 200 of GET /x and to its JSON request body.  Two documents hold a
\* `parameters` and a `properties` that is a number.
\* ------------------------------------------------------------------------
MaxStyleNames == 2

V_header == Str(<<"h","e","a","d","e","r">>)

MixNames == {Str(N_userId), Str(N_id), Str(N_user_id), Str(N_user_dash_id)}

ParamOf(n, where) == Dict(<<<<K_name, n>>, <<K_in, where>>>>)

OperationStyleParams ==
    {ParamOf(n, V_query) : n \in MixNames}
      \cup {ParamOf(Str(N_userId), V_path), ParamOf(Str(N_user_id), V_header)}

PathStyleParams ==
    {<<>>, <<ParamOf(Str(N_userId), V_path)>>, <<ParamOf(Str(N_user_id), V_query)>>,
     <<ParamOf(Str(N_user_dash_id), V_header)>>}

StyleParamDocs ==
    {DocWithPaths(Dict1(P_x, WithParams(pl, <<<<Str(M_get), WithParams(ol, <<>>)>>>>))) :
        pl \in PathStyleParams,
        ol \in StringsUpTo(OperationStyleParams, MaxStyleNames)}

\* The sequences of distinct names of up to MaxStyleNames names.
DistinctNames ==
    {w \in StringsUpTo(MixNames, MaxStyleNames) :
        \A i, j \in 1..Len(w) : i # j => w[i] # w[j]}

NamedProps(w) == Dict1(K_properties, Dict([i \in 1..Len(w) |-> <<w[i], Dict1(K_type, T_string)>>]))

StyleJsonDocs ==
    {Dict(<<<<K_components, Dict1(K_schemas, Dict1(S_S, NamedProps(c)))>>,
            <<K_paths, Dict1(P_x, Dict1(Str(M_get),
                 Dict(<<<<K_responses, Dict1(S_200, JsonContent(NamedProps(rs)))>>,
                        <<K_requestBody, JsonContent(NamedProps(rb))>>>>)))>>>>) :
        c \in DistinctNames, rs \in DistinctNames,
        rb \in {<<>>, <<Str(N_user_id)>>, <<Str(N_user_dash_id)>>}}

StyleDocs ==
    StyleParamDocs \cup StyleJsonDocs
      \cup {DocWithOperation(Dict1(K_parameters, Num(5))),
            DocWithComponent(Dict1(K_properties, Num(5)))}

InitStyles == \E doc \in StyleDocs : NotCalled(doc, N_id, 0)
SpecStyles == InitStyles /\ [][Next]_vars

\* Names of the in: path and in: query parameters of a path item or an
\* operation.
PathOrQueryNames(owner) ==
    LET ps == GetN(owner, K_parameters) IN
    IF ~IsList(ps) THEN <<>>
    ELSE LET kept == SelectSeq(ps.v, LAMBDA p : /\ IsDict(p)
                                                /\ GetN(p, K_in) \in {V_path, V_query}
                                                /\ IsStr(GetN(p, K_name)))
         IN [i \in 1..Len(kept) |-> GetN(kept[i], K_name)]

\* The parameter names the claim says are collected: path level and
\* operation level, duplicates kept.
CollectedParamNames ==
    LET items == Values(GetOr(spec, K_paths, EmptyDict))
        ops == iter_operations(spec).ops
    IN FlatMap(PathOrQueryNames, SelectSeq(items, IsDict))
         \o FlatMap(LAMBDA o : PathOrQueryNames(o.op), ops)

\* The JSON property names the check collects.
CollectedJsonNames == _collect_json_property_names(spec).names

NamesOfStyle(names, style) == {i \in 1..Len(names) : detect_style(names[i].v) = style}

StyleCases(names, mix, non_standard) ==
    LET camel == Cardinality(NamesOfStyle(names, "camel"))
        snake == Cardinality(NamesOfStyle(names, "snake"))
        other == Cardinality(NamesOfStyle(names, "other"))
        mixes == SelectSeq(out.issues, LAMBDA x : x.kind = mix)
        others == SelectSeq(out.issues, LAMBDA x : x.kind = non_standard)
    IN /\ ~out.raised
       /\ Len(out.issues) <= 2
       /\ Len(out.issues) = Len(mixes) + Len(others)
       /\ Len(mixes) = (IF camel > 0 /\ snake > 0 THEN 1 ELSE 0)
       /\ Len(others) = (IF other > 0 /\ camel + snake > 0 THEN 1 ELSE 0)
       /\ \A i \in 1..Len(mixes) : mixes[i].camel = camel /\ mixes[i].snake = snake
       /\ \A i \in 1..Len(others) : others[i].other = other

\* ------------------------------------------------------------------------
\* C13: check_json_keys_style and check_param_names_style each return at
\* most two diagnostics for any document: the mixed-style diagnostic iff
\* some collected name is camel and some is snake, the non-standard
\* diagnostic iff some collected name is other and some is camel or snake,
\* with the counts of the collected names of each style (duplicates
\* counted); for parameters only names of in: path and in: query
\* parameters, at path level and operation level, are collected.
\* ------------------------------------------------------------------------
C13_StyleMixing ==
    /\ fn = "check_json_keys_style" =>
          StyleCases(CollectedJsonNames, "json_keys_mix", "json_keys_non_standard")
    /\ fn = "check_param_names_style" =>
          StyleCases(CollectedParamNames, "param_names_mix", "param_names_non_standard")

\* The same on the documents where the two checks return; this part of
\* C13 holds.
C13_StyleMixingWhenReturning ==
    (fn \in {"check_json_keys_style", "check_param_names_style"} /\ ~out.raised)
        => C13_StyleMixing

\* ------------------------------------------------------------------------
\* C14: check_dry_refs emits exactly one "large inline object" diagnostic
\* for every scanned schema (component registry, JSON request bodies, JSON
\* responses) that has no $ref, is an object schema (by type: object or by
\* the presence of a properties map) and has 5 or more properties, and
\* none for any other schema.
\* ------------------------------------------------------------------------
\* Object-shaped: type: object, or a properties key.
IsObjectSchema(sch) == GetN(sch, K_type) = V_object \/ HasKey(sch, K_properties)

LargeInlineCount(w) ==
    Len(SelectSeq(out.issues, LAMBDA x : x.kind = "large_inline_object" /\ x.where = w))

C14_LargeInlineObjects ==
    (fn = "check_dry_refs" /\ ~out.raised) =>
        /\ \A i \in 1..Len(out.issues) :
              \E j \in 1..Len(Scanned) : out.issues[i].where = Scanned[j].where
        /\ \A i \in 1..Len(Scanned) :
              LargeInlineCount(Scanned[i].where) =
                  Cardinality({j \in 1..Len(Scanned) :
                                  /\ Scanned[j].where = Scanned[i].where
                                  /\ ~HasKey(Scanned[j].sch, K_ref)
                                  /\ IsObjectSchema(Scanned[j].sch)
                                  /\ PropertyCount(Scanned[j].sch) >= 5})

\* ------------------------------------------------------------------------
\* Inputs of the operations specification: a path /x whose value is not a
\* mapping, or a mapping of up to MaxKeys distinct keys among get, post,
\* GET and parameters, each with an empty operation, an operation with an
\* operationId, or a string; alone, or followed by a path /y that holds
\* the other six methods and an extension key, or by a path that is a list.
\* ------------------------------------------------------------------------
MaxKeys == 2

S_ext == Str(<<"x","-","e","x","t">>)

ItemKeys == {Str(M_get), Str(M_post), Str(Upper(M_get)), K_parameters}
ItemValues == {EmptyDict, Dict1(K_operationId, S_foo), S_a}

\* Path items of up to MaxKeys entries with distinct keys.
PathItems ==
    {Dict(kvs) : kvs \in {w \in StringsUpTo(ItemKeys \X ItemValues, MaxKeys) :
                             \A i, j \in 1..Len(w) : i # j => w[i][1] # w[j][1]}}

OtherMethodsItem ==
    Dict(<<<<Str(M_put), EmptyDict>>, <<Str(M_patch), EmptyDict>>, <<S_ext, EmptyDict>>,
           <<Str(M_delete), EmptyDict>>, <<Str(M_options), EmptyDict>>,
           <<Str(M_head), EmptyDict>>, <<Str(M_trace), EmptyDict>>>>)

OpsDocs ==
    {DocWithPaths(Dict(<<<<P_x, item>>>> \o more)) :
        item \in PathItems \cup {NoneV, S_a, List(<<EmptyDict>>)},
        more \in {<<>>, <<<<P_y, OtherMethodsItem>>>>, <<<<P_y, List(<<Str(M_get)>>)>>>>}}
      \cup {EmptyDict, Dict1(K_paths, NoneV), Dict1(K_paths, EmptyList)}

InitOps == \E doc \in OpsDocs : NotCalled(doc, N_id, 0)
SpecOps == InitOps /\ [][Next]_vars

\* The entries of paths, and the positions <<i, j>> of the keys of the
\* path items that are mappings, in document order.
PathEntries == Items(GetOr(spec, K_paths, EmptyDict))

KeyPositions ==
    FlatMap(LAMBDA i : IF IsDict(PathEntries[i][2])
                       THEN [j \in 1..Len(PathEntries[i][2].v) |-> <<i, j>>]
                       ELSE <<>>,
            [i \in 1..Len(PathEntries) |-> i])

KeyAt(pos) == PathEntries[pos[1]][2].v[pos[2]][1]
ValueAt(pos) == PathEntries[pos[1]][2].v[pos[2]][2]

MethodNames ==
    {M_get, M_post, M_put, M_patch, M_delete, M_options, M_head, M_trace}

\* The key is a method name whatever its case / exactly as written.
IsMethodInAnyCase(pos) ==
    IsStr(KeyAt(pos)) /\ Lower(KeyAt(pos).v) \in MethodNames /\ IsDict(ValueAt(pos))
IsMethodAsWritten(pos) ==
    IsStr(KeyAt(pos)) /\ KeyAt(pos).v \in MethodNames /\ IsDict(ValueAt(pos))

Unparsable == [t |-> "unparsable", v |-> <<>>]

X_yaml == <<".","y","a","m","l">>
X_yml == <<".","y","m","l">>
X_json == <<".","j","s","o","n">>

\* yaml.safe_load(text) or {} / json.loads(text) or {}
Decoded(content, parse_error) ==
    IF content = Unparsable THEN [error |-> parse_error, doc |-> NoneV]
    ELSE [error |-> "none", doc |-> IF Truthy(content) THEN content ELSE EmptyDict]

load_spec(f) ==
    IF ~f.exists THEN [error |-> "FileNotFoundError", doc |-> NoneV]
    ELSE LET ext == Lower(f.suffix) IN
         IF ext \in {X_yaml, X_yml} THEN Decoded(f.content, "YAMLError")
         ELSE IF ext = X_json THEN Decoded(f.content, "JSONDecodeError")
         ELSE [error |-> "ValueError", doc |-> NoneV]

\* The checks in the order audit calls them.
CheckOrder ==
    <<"check_unique_operation_ids", "check_path_params_defined", "check_verbs_in_path",
      "check_plural_collections", "check_json_keys_style", "check_param_names_style",
      "check_versioning_present", "check_schema_types_and_required",
      "check_nullable_vs_optional", "check_examples_presence", "check_dry_refs">>

\* Line 38: spec = load_spec(spec_path); an exception ends the run.
Audit_load_spec ==
    /\ pc = "load_spec"
    /\ LET r == load_spec(file) IN
       /\ fn' = "load_spec"
       /\ out' = [raised |-> r.error # "none", issues |-> <<>>]
       /\ error' = r.error
       /\ IF r.error = "none"
          THEN spec' = r.doc /\ pc' = "version"
          ELSE spec' = spec /\ pc' = "raised"
    /\ UNCHANGED <<name, hashseed, file, invoked, report>>

\* Line 39: spec.get("openapi") or spec.get("swagger").
Audit_version ==
    /\ pc = "version"
    /\ IF IsDict(spec)
       THEN pc' = "checks" /\ error' = error
       ELSE pc' = "raised" /\ error' = "AttributeError"
    /\ UNCHANGED <<spec, name, hashseed, fn, out, file, invoked, report>>

\* The k-th call of a check; an exception leaves audit.
AuditCall(k, result) ==
    /\ pc = "checks"
    /\ Len(invoked) = k - 1
    /\ fn' = CheckOrder[k]
    /\ out' = result
    /\ invoked' = Append(invoked, [check |-> CheckOrder[k], issues |-> result.issues])
    /\ IF result.raised
       THEN pc' = "raised" /\ error' = "Exception"
       ELSE /\ pc' = IF k = Len(CheckOrder) THEN "write_markdown_report" ELSE "checks"
            /\ error' = error
    /\ UNCHANGED <<spec, name, hashseed, file, report>>

Audit_check_unique_operation_ids == AuditCall(1, check_unique_operation_ids(spec))
Audit_check_path_params_defined == AuditCall(2, check_path_params_defined(spec, hashseed))
Audit_check_verbs_in_path == AuditCall(3, check_verbs_in_path(spec))
Audit_check_plural_collections == AuditCall(4, check_plural_collections(spec))
Audit_check_json_keys_style == AuditCall(5, check_json_keys_style(spec))
Audit_check_param_names_style == AuditCall(6, check_param_names_style(spec))
Audit_check_versioning_present == AuditCall(7, check_versioning_present(spec))
Audit_check_schema_types_and_required ==
    AuditCall(8, check_schema_types_and_required(spec))
Audit_check_nullable_vs_optional == AuditCall(9, check_nullable_vs_optional(spec))
Audit_check_examples_presence == AuditCall(10, check_examples_presence(spec))
Audit_check_dry_refs == AuditCall(11, check_dry_refs(spec))

\* Lines 139-171: one section for every check that found issues, then
\* write_markdown_report.
Audit_write_markdown_report ==
    /\ pc = "write_markdown_report"
    /\ report' = [written |-> TRUE,
                  sections |-> SelectSeq(invoked, LAMBDA c : c.issues # <<>>)]
    /\ pc' = "done"
    /\ UNCHANGED <<spec, name, hashseed, fn, out, file, invoked, error>>

AuditNext ==
    \/ Audit_load_spec
    \/ Audit_version
    \/ Audit_check_unique_operation_ids
    \/ Audit_check_path_params_defined
    \/ Audit_check_verbs_in_path
    \/ Audit_check_plural_collections
    \/ Audit_check_json_keys_style
    \/ Audit_check_param_names_style
    \/ Audit_check_versioning_present
    \/ Audit_check_schema_types_and_required
    \/ Audit_check_nullable_vs_optional
    \/ Audit_check_examples_presence
    \/ Audit_check_dry_refs
    \/ Audit_write_markdown_report

\* ------------------------------------------------------------------------
\* Inputs of the audit specification: a target that exists or not, with
\* suffix .yaml, .yml, .json, .YAML, .txt or none, whose text is
\* unparsable or decodes to an empty document, to null, to a list, to a
\* document with findings, or to a document on which the first, the
\* seventh or the eighth check raises.
\* ------------------------------------------------------------------------
AuditSuffixes ==
    {X_yaml, X_yml, X_json, <<".","Y","A","M","L">>, <<".","t","x","t">>, <<>>}

AuditContents ==
    {Unparsable, EmptyDict, NoneV, List(<<S_a>>),
     SchemaDoc(LargePlain, NoneV, LargePlain),
     Dict1(K_paths, List(<<S_a>>)),
     Dict(<<<<K_openapi, S_3_0>>, <<K_servers, Num(5)>>>>),
     DocWithComponent(Dict(<<<<K_type, V_object>>, <<K_required, Num(5)>>>>))}

AuditFiles ==
    {[exists |-> e, suffix |-> x, content |-> c] :
        e \in BOOLEAN, x \in AuditSuffixes, c \in AuditContents}

InitAudit ==
    /\ file \in AuditFiles
    /\ pc = "load_spec"
    /\ invoked = <<>>
    /\ error = "none"
    /\ report = NoReport
    /\ spec = NoneV
    /\ name = N_id
    /\ hashseed \in {0, 1}
    /\ fn = "none"
    /\ out = Ok(<<>>)

SpecAudit == InitAudit /\ [][AuditNext]_vars

\* The target does not exist, or its extension is not .yaml/.yml/.json.
TargetMissing == ~file.exists
TargetUnsupported == Lower(file.suffix) \notin {X_yaml, X_yml, X_json}

InvokedNames == [i \in 1..Len(invoked) |-> invoked[i].check]

\* The first part of C15 and the order of the calls.
AuditAbortsAndOrder ==
    /\ (pc # "load_spec" /\ (TargetMissing \/ TargetUnsupported)) =>
          /\ pc = "raised"
          /\ error = (IF TargetMissing THEN "FileNotFoundError" ELSE "ValueError")
          /\ invoked = <<>>
          /\ ~report.written
    /\ Len(invoked) <= Len(CheckOrder)
    /\ InvokedNames = SubSeq(CheckOrder, 1, Len(invoked))
    /\ report.written => InvokedNames = CheckOrder

\* ------------------------------------------------------------------------
\* C15: in the audit pipeline, if the target file does not exist or its
\* extension is not .yaml/.yml/.json, load_spec raises (FileNotFoundError
\* resp. ValueError) and no check is invoked and no report is written; in
\* a run where loading succeeds every check is invoked exactly once, in
\* the fixed order, before the report is written: such a run only ends
\* with the report written.
\* ------------------------------------------------------------------------
C15_AuditPipeline ==
    /\ AuditAbortsAndOrder
    /\ pc = "raised" => error \in {"FileNotFoundError", "ValueError", "YAMLError",
                                   "JSONDecodeError"}

\* The part of C15 that holds: the aborts of load_spec, the order of the
\* calls, and all eleven calls before the report.
C15_AbortsAndOrderHold == pc # "idle" => AuditAbortsAndOrder

====
